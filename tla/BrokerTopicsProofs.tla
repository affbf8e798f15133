------------------------- MODULE BrokerTopicsProofs -------------------------
(***************************************************************************)
(* The broker's topics, for every set of clients, filters, topics, share   *)
(* names and rules. The subscriptions granted and the messages retained    *)
(* are told by history variables; the two invariants say that the data     *)
(* structures are what these histories call for:                           *)
(*                                                                         *)
(*   TopicsInv    the subscription tree has the nodes, the counts and the  *)
(*                flags of the filters granted, each subscriber at its     *)
(*                node, and shared_targets_ one member for each client and *)
(*                share name, with the filters it was granted;             *)
(*   RetainedInv  the retained tree has the nodes and the counts of the    *)
(*                topics that hold a message.                              *)
(*                                                                         *)
(* Neither TreeExact nor RetainedExact can be shown without the counts: a  *)
(* node goes when its count is 1, and must then be on the way to nothing   *)
(* else. The handlers walk lists (the entries of a SUBSCRIBE, the filters  *)
(* of a session, the shared subscriptions met, the levels of a topic);     *)
(* what such a walk does is shown by induction on its length.              *)
(*                                                                         *)
(* A client is taken not to use one filter under several share names       *)
(* (~MixedShares), where the subscriptions are concerned.                  *)
(***************************************************************************)
EXTENDS BrokerTopics, EntrySequencesProofs

-----------------------------------------------------------------------------
(* Paths *)

(* The levels; the wildcards are strings as well, which the provers do not know. *)
Levels == STRING \union {SM!Plus, SM!Hash}

Paths == Seq(Levels)

(* A prefix is what it is entry by entry. *)
LEMMA PrefixIs ==
    ASSUME NEW s \in Paths, NEW t \in Paths
    PROVE  /\ IsPrefix(s, t) <=> Len(s) <= Len(t) /\ \A i \in 1..Len(s) : s[i] = t[i]
           /\ s \in Prefixes(t) <=> IsPrefix(s, t)
<1>1. /\ Len(s) \in Nat /\ Len(t) \in Nat
      /\ \A i \in 1..Len(s) : s[i] \in Levels
      /\ \A i \in 1..Len(t) : t[i] \in Levels
  BY LenProperties DEF Paths
<1>2. \A n \in 0..Len(t) :
        /\ SubSeq(t, 1, n) \in Paths /\ Len(SubSeq(t, 1, n)) = n
        /\ \A i \in 1..n : SubSeq(t, 1, n)[i] = t[i]
  BY <1>1, SubSeqProperties DEF Paths
<1>3. /\ SubSeq(s, 1, Len(s)) \in Paths /\ Len(SubSeq(s, 1, Len(s))) = Len(s)
      /\ \A i \in 1..Len(s) : SubSeq(s, 1, Len(s))[i] = s[i]
  BY <1>1, SubSeqProperties DEF Paths
<1>4. SubSeq(s, 1, Len(s)) = s
  BY <1>1, <1>3, SeqEqual DEF Paths
<1>5. ASSUME Len(s) <= Len(t), \A i \in 1..Len(s) : s[i] = t[i]
      PROVE  SubSeq(t, 1, Len(s)) = s
  <2>1. Len(s) \in 0..Len(t)
    BY <1>1, <1>5
  <2> QED BY <1>1, <1>2, <1>5, <2>1, SeqEqual DEF Paths
<1>6. ASSUME NEW n \in 0..Len(t), s = SubSeq(t, 1, n)
      PROVE  Len(s) <= Len(t) /\ \A i \in 1..Len(s) : s[i] = t[i]
  BY <1>1, <1>2, <1>6
<1>7. Len(s) <= Len(t) => Len(s) \in 0..Len(t)
  BY <1>1
<1>8. IsPrefix(s, t) <=> Len(s) <= Len(t) /\ \A i \in 1..Len(s) : s[i] = t[i]
  BY <1>4, <1>5, <1>6, <1>7 DEF IsPrefix
<1>9. s \in Prefixes(t) <=> Len(s) <= Len(t) /\ \A i \in 1..Len(s) : s[i] = t[i]
  BY <1>5, <1>6, <1>7 DEF Prefixes
<1> QED BY <1>8, <1>9

LEMMA PrefixesOf ==
    ASSUME NEW t \in Paths
    PROVE  /\ Prefixes(t) \subseteq Paths /\ <<>> \in Prefixes(t) /\ t \in Prefixes(t)
           /\ \A p \in Prefixes(t) : Prefixes(p) \subseteq Prefixes(t)
<1>1. Len(t) \in Nat
  BY LenProperties DEF Paths
<1>2. \A n \in 0..Len(t) : SubSeq(t, 1, n) \in Paths
  BY <1>1, SubSeqProperties, LenProperties DEF Paths
<1>3. \A p \in Prefixes(t) : p \in Paths
  BY <1>2 DEF Prefixes
<1>4. <<>> \in Paths /\ Len(<<>>) = 0
  BY EmptySeq DEF Paths
<1>5. <<>> \in Prefixes(t)
  BY <1>1, <1>4, PrefixIs
<1>6. t \in Prefixes(t)
  BY <1>1, PrefixIs
<1>7. ASSUME NEW p \in Prefixes(t), NEW q \in Prefixes(p) PROVE q \in Prefixes(t)
  <2>1. p \in Paths
    BY <1>3
  <2>2. q \in Paths
    <3>1. PICK n \in 0..Len(p) : q = SubSeq(p, 1, n)
      BY DEF Prefixes
    <3> QED BY <2>1, <3>1, SubSeqProperties, LenProperties DEF Paths
  <2>3. /\ Len(p) <= Len(t) /\ \A i \in 1..Len(p) : p[i] = t[i]
        /\ Len(q) <= Len(p) /\ \A i \in 1..Len(q) : q[i] = p[i]
    BY <2>1, <2>2, PrefixIs
  <2>4. Len(p) \in Nat /\ Len(q) \in Nat
    BY <2>1, <2>2, LenProperties DEF Paths
  <2> QED BY <1>1, <2>2, <2>3, <2>4, PrefixIs
<1> QED BY <1>3, <1>5, <1>6, <1>7

LEMMA PathOfIs ==
    ASSUME NEW t
    PROVE  /\ SM!Prefixes(t) = Prefixes(t) /\ RM!Prefixes(t) = Prefixes(t)
           /\ SM!PathOf(t) = Prefixes(t) \ {SM!Root} /\ RM!PathOf(t) = Prefixes(t) \ {RM!Root}
           /\ SM!Root = <<>> /\ RM!Root = <<>>
BY DEF SM!Prefixes, RM!Prefixes, Prefixes, SM!PathOf, RM!PathOf, SM!Root, RM!Root

(* One level more: the node below p on the way to t, and no other. *)
LEMMA PrefixesBelow ==
    ASSUME NEW t \in Paths, NEW p \in Paths, NEW level \in Levels
    PROVE  /\ Append(p, level) \in Paths /\ Append(p, level) # <<>> /\ Append(p, level) # p
           /\ Append(p, level) \in Prefixes(t)
                <=> p \in Prefixes(t) /\ p # t /\ SM!LevelBelow(p, t) = level
<1>1. /\ Len(t) \in Nat /\ Len(p) \in Nat /\ t \in Seq(Levels) /\ p \in Seq(Levels)
      /\ \A i \in 1..Len(t) : t[i] \in Levels
  BY LenProperties DEF Paths
<1> DEFINE q == Append(p, level)
<1>2. /\ q \in Paths /\ Len(q) = Len(p) + 1
      /\ \A i \in 1..Len(p) : q[i] = p[i]
      /\ q[Len(p) + 1] = level
  <2> HIDE DEF q
  <2>1. q = Append(p, level)
    BY DEF q
  <2> QED BY <1>1, <2>1, AppendProperties DEF Paths
<1> HIDE DEF q
<1>3. q # <<>> /\ q # p
  BY <1>1, <1>2, EmptySeq
<1>4. ASSUME q \in Prefixes(t) PROVE p \in Prefixes(t) /\ p # t /\ SM!LevelBelow(p, t) = level
  <2>1. Len(q) <= Len(t) /\ \A i \in 1..Len(q) : q[i] = t[i]
    BY <1>2, <1>4, PrefixIs
  <2>2. Len(p) + 1 <= Len(t)
    BY <1>2, <2>1
  <2>3. p \in Prefixes(t)
    <3>1. \A i \in 1..Len(p) : i \in 1..Len(q)
      BY <1>1, <1>2
    <3>2. \A i \in 1..Len(p) : p[i] = t[i]
      BY <1>2, <2>1, <3>1
    <3> QED BY <1>1, <2>2, <3>2, PrefixIs
  <2>4. p # t
    BY <1>1, <2>2
  <2>5. t[Len(p) + 1] = level
    <3>1. Len(p) + 1 \in 1..Len(q)
      BY <1>1, <1>2
    <3> QED BY <1>2, <2>1, <3>1
  <2> QED BY <2>3, <2>4, <2>5 DEF SM!LevelBelow
<1>5. ASSUME p \in Prefixes(t), p # t, SM!LevelBelow(p, t) = level PROVE q \in Prefixes(t)
  <2>1. Len(p) <= Len(t) /\ \A i \in 1..Len(p) : p[i] = t[i]
    BY <1>5, PrefixIs
  <2>2. Len(p) # Len(t)
    BY <1>1, <1>5, <2>1, SeqEqual DEF Paths
  <2>3. t[Len(p) + 1] = level
    BY <1>5 DEF SM!LevelBelow
  <2>4. Len(q) <= Len(t)
    BY <1>1, <1>2, <2>1, <2>2
  <2>5. \A i \in 1..Len(q) : i \in 1..Len(p) \/ i = Len(p) + 1
    BY <1>1, <1>2
  <2>6. \A i \in 1..Len(q) : q[i] = t[i]
    BY <1>2, <2>1, <2>3, <2>5
  <2> QED BY <1>2, <2>4, <2>6, PrefixIs
<1> QED BY <1>2, <1>3, <1>4, <1>5 DEF q

-----------------------------------------------------------------------------
(* Trees of topic filters *)

SubValues == [share : Shares \union {NotShared}, nl : {o.nl : o \in SubOpts}]

Subscribers == UNION {[D -> SubValues] : D \in SUBSET Clients}

TreeNodes == [count : Int, plus : BOOLEAN, hash : BOOLEAN, subs : Subscribers]

Trees == UNION {[D -> TreeNodes] : D \in SUBSET Paths}

LEMMA SubscribersAre ==
    /\ \A u \in Subscribers : DOMAIN u \in SUBSET Clients /\ u \in [DOMAIN u -> SubValues]
    /\ \A D \in SUBSET Clients : [D -> SubValues] \subseteq Subscribers
BY DEF Subscribers

LEMMA TreesAre ==
    /\ \A t \in Trees : DOMAIN t \in SUBSET Paths /\ t \in [DOMAIN t -> TreeNodes]
    /\ \A D \in SUBSET Paths : [D -> TreeNodes] \subseteq Trees
BY DEF Trees

LEMMA NewNodeType ==
    SM!NewNode \in TreeNodes /\ DOMAIN SM!NewNode.subs = {}
<1>1. SM!Nowhere \in [{} -> SubValues]
  BY DEF SM!Nowhere
<1>2. SM!Nowhere \in Subscribers
  BY <1>1, SubscribersAre
<1> QED BY <1>1, <1>2 DEF SM!NewNode, TreeNodes

(* What node p of the tree is, whether it is there or about to be made. *)
NodeAt(tree, p) == IF p \in DOMAIN tree THEN tree[p] ELSE SM!NewNode

(* The child of p on the way to f is the given wildcard, and is missing. *)
NewBelow(tree, f, p, level) ==
    /\ p \in Prefixes(f) /\ p # f
    /\ SM!LevelBelow(p, f) = level
    /\ Append(p, level) \notin DOMAIN tree

MakesPath(tree, f, t) ==
    /\ t \in Trees /\ DOMAIN t = DOMAIN tree \union SM!PathOf(f)
    /\ \A p \in DOMAIN t :
         /\ t[p].count = IF p \in SM!PathOf(f) /\ p \in DOMAIN tree
                         THEN NodeAt(tree, p).count + 1 ELSE NodeAt(tree, p).count
         /\ t[p].plus <=> NodeAt(tree, p).plus \/ NewBelow(tree, f, p, SM!Plus)
         /\ t[p].hash <=> NodeAt(tree, p).hash \/ NewBelow(tree, f, p, SM!Hash)
         /\ t[p].subs = NodeAt(tree, p).subs

LEMMA CreatedPathIs ==
    ASSUME NEW tree \in Trees, NEW f \in Paths,
           NEW t, t = SM!CreatedPath(tree, f)
    PROVE  MakesPath(tree, f, t)
<1> DEFINE D == DOMAIN tree \union SM!PathOf(f)
           node(p) == NodeAt(tree, p)
<1>1. D \in SUBSET Paths
  BY TreesAre, PrefixesOf, PathOfIs
<1>2. \A p \in D : node(p) \in TreeNodes
  BY TreesAre, NewNodeType DEF NodeAt
<1>3. \A n \in TreeNodes : n.count \in Int /\ n.plus \in BOOLEAN /\ n.hash \in BOOLEAN
                          /\ n.subs \in Subscribers
  BY DEF TreeNodes
<1>4. DOMAIN t = D /\ t = [p \in D |-> t[p]]
  BY DEF SM!CreatedPath
<1>5. ASSUME NEW p \in D
      PROVE  /\ t[p] \in TreeNodes
             /\ t[p].count = IF p \in SM!PathOf(f) /\ p \in DOMAIN tree
                             THEN node(p).count + 1 ELSE node(p).count
             /\ t[p].plus <=> node(p).plus \/ NewBelow(tree, f, p, SM!Plus)
             /\ t[p].hash <=> node(p).hash \/ NewBelow(tree, f, p, SM!Hash)
             /\ t[p].subs = node(p).subs
  <2>1. CASE p \notin Prefixes(f)
    <3>1. t[p] = tree[p] /\ node(p) = tree[p]
      BY <2>1, PathOfIs DEF SM!CreatedPath, NodeAt
    <3>2. p \notin SM!PathOf(f) /\ ~NewBelow(tree, f, p, SM!Plus) /\ ~NewBelow(tree, f, p, SM!Hash)
      BY <2>1, PathOfIs DEF NewBelow
    <3> HIDE DEF node
    <3> QED BY <1>2, <3>1, <3>2
  <2>2. CASE p \in Prefixes(f)
    <3> DEFINE grown == p # f /\ Append(p, SM!LevelBelow(p, f)) \notin DOMAIN tree
               more == IF p # SM!Root /\ p \in DOMAIN tree THEN 1 ELSE 0
               plus == node(p).plus \/ (grown /\ SM!LevelBelow(p, f) = SM!Plus)
               hash == node(p).hash \/ (grown /\ SM!LevelBelow(p, f) = SM!Hash)
    <3>1. t[p] = [count |-> node(p).count + more, plus |-> plus, hash |-> hash,
                  subs |-> node(p).subs]
      BY <2>2, PathOfIs DEF SM!CreatedPath, NodeAt
    <3>2. /\ NewBelow(tree, f, p, SM!Plus) <=> grown /\ SM!LevelBelow(p, f) = SM!Plus
          /\ NewBelow(tree, f, p, SM!Hash) <=> grown /\ SM!LevelBelow(p, f) = SM!Hash
      BY <2>2 DEF NewBelow
    <3>3. /\ plus \in BOOLEAN /\ hash \in BOOLEAN
          /\ plus <=> node(p).plus \/ NewBelow(tree, f, p, SM!Plus)
          /\ hash <=> node(p).hash \/ NewBelow(tree, f, p, SM!Hash)
      BY <3>2
    <3>4. node(p).count + more = IF p \in SM!PathOf(f) /\ p \in DOMAIN tree
                                 THEN node(p).count + 1 ELSE node(p).count
      <4>1. p \in SM!PathOf(f) <=> p # SM!Root
        BY <2>2, PathOfIs
      <4> QED BY <1>2, <1>3, <4>1
    <3>5. node(p).count + more \in Int /\ node(p).subs \in Subscribers
      BY <1>2, <1>3
    <3> HIDE DEF node, more, plus, hash
    <3>6. t[p] \in TreeNodes
      BY <3>1, <3>3, <3>5 DEF TreeNodes
    <3> QED BY <3>1, <3>3, <3>4, <3>6
  <2> QED BY <2>1, <2>2
<1>6. t \in [D -> TreeNodes]
  BY <1>4, <1>5
<1>7. t \in Trees
  BY <1>1, <1>6, TreesAre
<1> QED BY <1>4, <1>5, <1>7 DEF MakesPath

SetsSub(tree, f, key, sub, t) ==
    /\ t \in Trees /\ DOMAIN t = DOMAIN tree
    /\ \A p \in DOMAIN t :
         /\ t[p].count = tree[p].count
         /\ t[p].plus <=> tree[p].plus
         /\ t[p].hash <=> tree[p].hash
         /\ p # f => t[p].subs = tree[p].subs
    /\ t[f].subs = [k \in DOMAIN tree[f].subs \union {key} |->
                     IF k = key THEN sub ELSE tree[f].subs[k]]

LEMMA WithSubIs ==
    ASSUME NEW tree \in Trees, NEW f \in DOMAIN tree, NEW key \in Clients, NEW sub \in SubValues,
           NEW t, t = SM!WithSub(tree, f, key, sub)
    PROVE  SetsSub(tree, f, key, sub, t)
<1> DEFINE old == tree[f].subs
           new == [k \in DOMAIN old \union {key} |-> IF k = key THEN sub ELSE old[k]]
           With(n) == [n EXCEPT !.subs = new]
<1>1. tree \in [DOMAIN tree -> TreeNodes] /\ DOMAIN tree \in SUBSET Paths
  BY TreesAre
<1>2. old \in Subscribers
  BY <1>1 DEF TreeNodes
<1>3. new \in Subscribers
  <2>1. DOMAIN old \in SUBSET Clients /\ old \in [DOMAIN old -> SubValues]
    BY <1>2, SubscribersAre
  <2> HIDE DEF old
  <2>2. new \in [DOMAIN old \union {key} -> SubValues]
    BY <2>1
  <2> QED BY <2>1, <2>2, SubscribersAre
<1>4. t = [tree EXCEPT ![f].subs = new]
  BY DEF SM!WithSub
<1> HIDE DEF new, old
<1>5. \A n \in TreeNodes : /\ With(n) \in TreeNodes /\ With(n).subs = new
                           /\ With(n).count = n.count
                           /\ With(n).plus = n.plus /\ With(n).hash = n.hash
  BY <1>3 DEF TreeNodes
<1>6. t = [p \in DOMAIN tree |-> IF p = f THEN With(tree[p]) ELSE tree[p]]
  BY <1>1, <1>4
<1> HIDE DEF With
<1>7. t \in [DOMAIN tree -> TreeNodes]
  BY <1>1, <1>5, <1>6
<1>8. t \in Trees
  BY <1>1, <1>7, TreesAre
<1>9. \A p \in DOMAIN tree : tree[p] \in TreeNodes
  BY <1>1
<1> HIDE DEF new
<1>10. /\ t \in Trees /\ DOMAIN t = DOMAIN tree
       /\ \A p \in DOMAIN t : /\ t[p].count = tree[p].count
                              /\ t[p].plus <=> tree[p].plus
                              /\ t[p].hash <=> tree[p].hash
                              /\ p # f => t[p].subs = tree[p].subs
       /\ t[f].subs = new
  BY <1>5, <1>6, <1>8, <1>9
<1> QED BY <1>10 DEF new, old, SetsSub

CountsPath(tree, f, t) ==
    /\ t \in Trees /\ DOMAIN t = DOMAIN tree
    /\ \A p \in DOMAIN t :
         /\ t[p].count = IF p \in SM!PathOf(f) THEN tree[p].count + 1
                         ELSE tree[p].count
         /\ t[p].plus <=> tree[p].plus
         /\ t[p].hash <=> tree[p].hash
         /\ t[p].subs = tree[p].subs

LEMMA CountedPathIs ==
    ASSUME NEW tree \in Trees, NEW f \in Paths,
           NEW t, t = SM!CountedPath(tree, f)
    PROVE  CountsPath(tree, f, t)
<1>1. tree \in [DOMAIN tree -> TreeNodes] /\ DOMAIN tree \in SUBSET Paths
  BY TreesAre
<1>2. \A n \in TreeNodes : LET m == [n EXCEPT !.count = @ + 1]
                           IN  /\ m \in TreeNodes /\ m.count = n.count + 1 /\ m.subs = n.subs
                               /\ m.plus = n.plus /\ m.hash = n.hash
  BY DEF TreeNodes
<1>3. t = [p \in DOMAIN tree |-> IF p \in SM!PathOf(f) THEN [tree[p] EXCEPT !.count = @ + 1]
                                 ELSE tree[p]]
  BY DEF SM!CountedPath
<1>4. t \in [DOMAIN tree -> TreeNodes]
  BY <1>1, <1>2, <1>3
<1>5. t \in Trees
  BY <1>1, <1>4, TreesAre
<1>6. \A p \in DOMAIN tree : tree[p] \in TreeNodes
  BY <1>1
<1> QED BY <1>2, <1>3, <1>5, <1>6 DEF CountsPath

(* insert_or_assign(), node by node. *)
InsertsSub(tree, f, key, sub, t) ==
    /\ t \in Trees /\ f \in DOMAIN t
    /\ DOMAIN t = DOMAIN tree \union SM!PathOf(f)
    /\ \A p \in DOMAIN t :
         /\ t[p].count = IF /\ p \in SM!PathOf(f) /\ p \in DOMAIN tree
                            /\ SM!IsNew(tree, f, key)
                         THEN NodeAt(tree, p).count + 1 ELSE NodeAt(tree, p).count
         /\ t[p].plus <=> NodeAt(tree, p).plus
                             \/ (~SM!Stored(tree, f) /\ NewBelow(tree, f, p, SM!Plus))
         /\ t[p].hash <=> NodeAt(tree, p).hash
                             \/ (~SM!Stored(tree, f) /\ NewBelow(tree, f, p, SM!Hash))
         /\ p # f => t[p].subs = NodeAt(tree, p).subs
    /\ t[f].subs = [k \in DOMAIN NodeAt(tree, f).subs \union {key} |->
                     IF k = key THEN sub ELSE NodeAt(tree, f).subs[k]]

LEMMA InsertedIs ==
    ASSUME NEW tree \in Trees, NEW f \in Paths, f # <<>>, NEW key \in Clients,
           NEW sub \in SubValues,
           NEW t, t = SM!Inserted(tree, f, key, sub)
    PROVE  InsertsSub(tree, f, key, sub, t)
<1> DEFINE a == IF ~SM!Stored(tree, f) THEN SM!CreatedPath(tree, f)
                ELSE IF SM!IsNew(tree, f, key) THEN SM!CountedPath(tree, f) ELSE tree
<1>1. t = SM!WithSub(a, f, key, sub)
  BY DEF SM!Inserted
<1>2. f \in SM!PathOf(f)
  BY PrefixesOf, PathOfIs
<1>3. /\ a \in Trees /\ DOMAIN a = DOMAIN tree \union SM!PathOf(f)
      /\ \A p \in DOMAIN a :
            /\ a[p].count = IF p \in SM!PathOf(f) /\ p \in DOMAIN tree /\ SM!IsNew(tree, f, key)
                            THEN NodeAt(tree, p).count + 1 ELSE NodeAt(tree, p).count
            /\ a[p].plus <=> NodeAt(tree, p).plus
                                \/ (~SM!Stored(tree, f) /\ NewBelow(tree, f, p, SM!Plus))
            /\ a[p].hash <=> NodeAt(tree, p).hash
                                \/ (~SM!Stored(tree, f) /\ NewBelow(tree, f, p, SM!Hash))
            /\ a[p].subs = NodeAt(tree, p).subs
  <2>1. CASE ~SM!Stored(tree, f)
    <3>1. a = SM!CreatedPath(tree, f) /\ SM!IsNew(tree, f, key)
      BY <2>1 DEF SM!IsNew
    <3> HIDE DEF a
    <3>2. /\ a \in Trees /\ DOMAIN a = DOMAIN tree \union SM!PathOf(f)
          /\ \A p \in DOMAIN a :
               /\ a[p].count = IF p \in SM!PathOf(f) /\ p \in DOMAIN tree
                               THEN NodeAt(tree, p).count + 1 ELSE NodeAt(tree, p).count
               /\ a[p].plus <=> NodeAt(tree, p).plus \/ NewBelow(tree, f, p, SM!Plus)
               /\ a[p].hash <=> NodeAt(tree, p).hash \/ NewBelow(tree, f, p, SM!Hash)
               /\ a[p].subs = NodeAt(tree, p).subs
      <4>1. MakesPath(tree, f, a)
        BY <3>1, CreatedPathIs
      <4> QED BY <4>1 DEF MakesPath
    <3> QED BY <2>1, <3>1, <3>2
  <2>2. CASE SM!Stored(tree, f)
    <3>1. /\ DOMAIN tree = DOMAIN tree \union SM!PathOf(f)
          /\ \A p \in DOMAIN tree : NodeAt(tree, p) = tree[p]
      BY <2>2 DEF SM!Stored, NodeAt
    <3>2. CASE SM!IsNew(tree, f, key)
      <4>1. a = SM!CountedPath(tree, f)
        BY <2>2, <3>2
      <4> HIDE DEF a
      <4>2. /\ a \in Trees /\ DOMAIN a = DOMAIN tree
            /\ \A p \in DOMAIN a :
                    /\ a[p].count = IF p \in SM!PathOf(f) THEN tree[p].count + 1
                                    ELSE tree[p].count
                    /\ a[p].plus <=> tree[p].plus
                    /\ a[p].hash <=> tree[p].hash
                    /\ a[p].subs = tree[p].subs
        <5>1. CountsPath(tree, f, a)
          BY <4>1, CountedPathIs
        <5> QED BY <5>1 DEF CountsPath
      <4> QED BY <2>2, <3>1, <3>2, <4>2
    <3>3. CASE ~SM!IsNew(tree, f, key)
      <4>1. a = tree
        BY <2>2, <3>3
      <4> QED BY <2>2, <3>1, <3>3, <4>1
    <3> QED BY <3>2, <3>3
  <2> QED BY <2>1, <2>2
<1> HIDE DEF a
<1>4. f \in DOMAIN a
  BY <1>2, <1>3
<1>5. /\ t \in Trees /\ DOMAIN t = DOMAIN a
      /\ \A p \in DOMAIN t : /\ t[p].count = a[p].count
                             /\ t[p].plus <=> a[p].plus
                             /\ t[p].hash <=> a[p].hash
                             /\ p # f => t[p].subs = a[p].subs
      /\ t[f].subs = [k \in DOMAIN a[f].subs \union {key} |->
                        IF k = key THEN sub ELSE a[f].subs[k]]
  <2>1. SetsSub(a, f, key, sub, t)
    BY <1>1, <1>3, <1>4, WithSubIs
  <2> QED BY <2>1 DEF SetsSub
<1> QED BY <1>1, <1>2, <1>3, <1>4, <1>5 DEF InsertsSub

(* The nodes whose last subscription goes. *)
LastOn(tree, f) == {p \in SM!PathOf(f) : tree[p].count = 1}

ErasesSub(tree, f, key, t) ==
    /\ t \in Trees /\ DOMAIN t = DOMAIN tree \ LastOn(tree, f)
    /\ \A p \in DOMAIN t :
        /\ t[p].count = IF p \in SM!PathOf(f) THEN tree[p].count - 1 ELSE tree[p].count
        /\ t[p].plus <=> tree[p].plus
                            /\ ~(/\ p \in Prefixes(f) /\ p # f /\ SM!LevelBelow(p, f) = SM!Plus
                                 /\ Append(p, SM!Plus) \in LastOn(tree, f))
        /\ t[p].hash <=> tree[p].hash
                            /\ ~(/\ p \in Prefixes(f) /\ p # f /\ SM!LevelBelow(p, f) = SM!Hash
                                 /\ Append(p, SM!Hash) \in LastOn(tree, f))
        /\ p # f => t[p].subs = tree[p].subs
        /\ p = f => t[p].subs = [k \in DOMAIN tree[f].subs \ {key} |-> tree[f].subs[k]]

LEMMA ErasedIs ==
    ASSUME NEW tree \in Trees, NEW f \in Paths, f # <<>>, NEW key \in Clients,
           SM!Stored(tree, f), SM!Root \in DOMAIN tree, ~SM!IsNew(tree, f, key),
           NEW t, t = SM!Erased(tree, f, key)
    PROVE  ErasesSub(tree, f, key, t)
<1> DEFINE old == tree[f].subs
           new == [k \in DOMAIN old \ {key} |-> old[k]]
           With(n) == [n EXCEPT !.subs = new]
           a == [tree EXCEPT ![f].subs = new]
           D == DOMAIN tree \ LastOn(tree, f)
<1>1. tree \in [DOMAIN tree -> TreeNodes] /\ DOMAIN tree \in SUBSET Paths
  BY TreesAre
<1>2. SM!PathOf(f) = Prefixes(f) \ {SM!Root} /\ Prefixes(f) \subseteq DOMAIN tree
      /\ SM!Prefixes(f) = Prefixes(f)
  BY PathOfIs DEF SM!Stored
<1>3. f \in DOMAIN tree /\ f \in Prefixes(f)
  BY <1>2, PrefixesOf
<1>4. old \in Subscribers
  BY <1>1, <1>3 DEF TreeNodes
<1>5. new \in Subscribers
  <2>1. DOMAIN old \in SUBSET Clients /\ old \in [DOMAIN old -> SubValues]
    BY <1>4, SubscribersAre
  <2> HIDE DEF old
  <2>2. new \in [DOMAIN old \ {key} -> SubValues]
    BY <2>1
  <2> QED BY <2>1, <2>2, SubscribersAre
<1>6. t = SM!RemovedPath(a, f)
  BY DEF SM!Erased
<1> HIDE DEF new, old
<1>7. \A n \in TreeNodes : /\ With(n) \in TreeNodes /\ With(n).subs = new
                           /\ With(n).count = n.count
                           /\ With(n).plus = n.plus /\ With(n).hash = n.hash
  BY <1>5 DEF TreeNodes
<1>8. a = [p \in DOMAIN tree |-> IF p = f THEN With(tree[p]) ELSE tree[p]]
  BY <1>1
<1> HIDE DEF a, With
<1>9. /\ DOMAIN a = DOMAIN tree
      /\ \A p \in DOMAIN tree :
            /\ a[p] \in TreeNodes
            /\ a[p].count = tree[p].count
            /\ a[p].plus <=> tree[p].plus
            /\ a[p].hash <=> tree[p].hash
            /\ p # f => a[p].subs = tree[p].subs
            /\ p = f => a[p].subs = new
  BY <1>1, <1>7, <1>8
<1>10. {p \in SM!PathOf(f) : a[p].count = 1} = LastOn(tree, f)
  BY <1>2, <1>9 DEF LastOn
<1>11. DOMAIN t = D /\ t = [p \in D |-> t[p]]
  BY <1>6, <1>9, <1>10 DEF SM!RemovedPath
<1> DEFINE lost(p, level) == /\ p \in Prefixes(f) /\ p # f
                             /\ SM!LevelBelow(p, f) = level
                             /\ Append(p, level) \in LastOn(tree, f)
<1>12. \A n \in TreeNodes : n.count \in Int /\ n.plus \in BOOLEAN /\ n.hash \in BOOLEAN
                            /\ n.subs \in Subscribers
  BY DEF TreeNodes
<1>13. ASSUME NEW p \in D
       PROVE  /\ t[p] \in TreeNodes
              /\ t[p].count = IF p \in SM!PathOf(f) THEN a[p].count - 1 ELSE a[p].count
              /\ t[p].plus <=> a[p].plus /\ ~lost(p, SM!Plus)
              /\ t[p].hash <=> a[p].hash /\ ~lost(p, SM!Hash)
              /\ t[p].subs = a[p].subs
  <2>1. CASE p \notin Prefixes(f)
    <3>1. t[p] = a[p]
      BY <1>2, <1>6, <1>9, <1>10, <2>1 DEF SM!RemovedPath
    <3>2. p \notin SM!PathOf(f) /\ ~lost(p, SM!Plus) /\ ~lost(p, SM!Hash)
      BY <1>2, <2>1
    <3> HIDE DEF lost
    <3> QED BY <1>9, <3>1, <3>2
  <2>2. CASE p \in Prefixes(f)
    <3> DEFINE gone(level) == /\ p # f
                              /\ SM!LevelBelow(p, f) = level
                              /\ Append(p, level) \in LastOn(tree, f)
               less == IF p = SM!Root THEN 0 ELSE 1
               plus == a[p].plus /\ ~gone(SM!Plus)
               hash == a[p].hash /\ ~gone(SM!Hash)
    <3>1. t[p] = [count |-> a[p].count - less, plus |-> plus, hash |-> hash,
                  subs |-> a[p].subs]
      <4> DEFINE G == {q \in SM!PathOf(f) : a[q].count = 1}
                 gone2(level) == p # f /\ SM!LevelBelow(p, f) = level /\ Append(p, level) \in G
      <4>1. p \in DOMAIN a \ G /\ p \in SM!Prefixes(f)
        BY <1>2, <1>9, <1>10, <2>2
      <4>2. t = [q \in DOMAIN a \ G |->
                    IF q \notin SM!Prefixes(f) THEN a[q]
                    ELSE [count |-> a[q].count - (IF q = SM!Root THEN 0 ELSE 1),
                          plus |-> a[q].plus /\ ~(q # f /\ SM!LevelBelow(q, f) = SM!Plus
                                                   /\ Append(q, SM!Plus) \in G),
                          hash |-> a[q].hash /\ ~(q # f /\ SM!LevelBelow(q, f) = SM!Hash
                                                   /\ Append(q, SM!Hash) \in G),
                          subs |-> a[q].subs]]
        BY <1>6 DEF SM!RemovedPath
      <4>3. t[p] = [count |-> a[p].count - (IF p = SM!Root THEN 0 ELSE 1),
                    plus |-> a[p].plus /\ ~gone2(SM!Plus),
                    hash |-> a[p].hash /\ ~gone2(SM!Hash),
                    subs |-> a[p].subs]
        <5> HIDE DEF G
        <5> QED BY <4>1, <4>2
      <4>4. G = LastOn(tree, f)
        BY <1>10
      <4> HIDE DEF G
      <4> QED BY <4>3, <4>4
    <3>2. /\ lost(p, SM!Plus) <=> gone(SM!Plus)
          /\ lost(p, SM!Hash) <=> gone(SM!Hash)
      BY <2>2
    <3> HIDE DEF gone
    <3>3. /\ plus \in BOOLEAN /\ hash \in BOOLEAN
          /\ plus <=> a[p].plus /\ ~lost(p, SM!Plus)
          /\ hash <=> a[p].hash /\ ~lost(p, SM!Hash)
      BY <3>2
    <3>4. a[p].count - less = IF p \in SM!PathOf(f) THEN a[p].count - 1 ELSE a[p].count
      <4>1. p \in SM!PathOf(f) <=> p # SM!Root
        BY <1>2, <2>2
      <4> QED BY <1>9, <1>12, <4>1
    <3>5. a[p].count - less \in Int /\ a[p].subs \in Subscribers
      BY <1>9, <1>12
    <3> HIDE DEF less, plus, hash, lost
    <3>6. t[p] \in TreeNodes
      BY <3>1, <3>3, <3>5 DEF TreeNodes
    <3> QED BY <3>1, <3>3, <3>4, <3>6
  <2> QED BY <2>1, <2>2
<1>14. t \in [D -> TreeNodes]
  BY <1>11, <1>13
<1>15. t \in Trees
  BY <1>1, <1>14, TreesAre
<1>16. \A p \in D : p \in DOMAIN tree
  OBVIOUS
<1>17. ASSUME NEW p \in D
       PROVE  /\ p # f => t[p].subs = tree[p].subs
              /\ p = f => t[p].subs = new
              /\ a[p].count = tree[p].count
              /\ a[p].plus <=> tree[p].plus
              /\ a[p].hash <=> tree[p].hash
  BY <1>9, <1>13, <1>16
<1> HIDE DEF D
<1>18. t \in Trees /\ DOMAIN t = D
  BY <1>11, <1>15
<1> QED BY <1>13, <1>17, <1>18 DEF ErasesSub, new, old, D

-----------------------------------------------------------------------------
(* The tree of a set of subscriptions *)

Pairs == Clients \X Filters

PairsBelow(S, p) == {x \in S : p \in Prefixes(x[2])}

(* Exactly the nodes, the counts, the wildcard flags and the subscribers that
   the pairs of a client and a filter in S call for. *)
TreeOf(tree, S) ==
    /\ tree \in Trees
    /\ DOMAIN tree = {SM!Root} \union UNION {Prefixes(x[2]) : x \in S}
    /\ \A p \in DOMAIN tree :
        /\ p # SM!Root => tree[p].count = Cardinality(PairsBelow(S, p))
        /\ tree[p].plus <=> Append(p, SM!Plus) \in DOMAIN tree
        /\ tree[p].hash <=> Append(p, SM!Hash) \in DOMAIN tree
        /\ DOMAIN tree[p].subs = {c \in Clients : <<c, p>> \in S}

LEMMA FiltersArePaths ==
    /\ \A f \in Filters : f \in Paths /\ f # <<>>
    /\ \A x \in Pairs : x = <<x[1], x[2]>> /\ x[1] \in Clients /\ x[2] \in Filters
<1>1. \A f \in Seq(STRING) : f \in Seq(Levels)
  <2> TAKE f \in Seq(STRING)
  <2>1. Len(f) \in Nat /\ f \in [1..Len(f) -> STRING]
    BY LenProperties
  <2>2. f \in [1..Len(f) -> Levels]
    BY <2>1 DEF Levels
  <2> QED BY <2>1, <2>2, IsASeq
<1> QED BY <1>1, TopicsAssumption DEF Paths, Pairs

LEMMA TreeNodesAre ==
    ASSUME NEW S \in SUBSET Pairs, NEW tree, TreeOf(tree, S)
    PROVE  /\ SM!Root \in DOMAIN tree
           /\ \A p : p \in DOMAIN tree <=> p = SM!Root \/ \E x \in S : p \in Prefixes(x[2])
           /\ \A p \in DOMAIN tree : Prefixes(p) \subseteq DOMAIN tree /\ p \in Paths
           /\ \A f \in Filters, c \in Clients :
                /\ SM!Stored(tree, f) <=> f \in DOMAIN tree
                /\ SM!IsNew(tree, f, c) <=> <<c, f>> \notin S
<1>1. /\ SM!Root \in DOMAIN tree
      /\ \A p : p \in DOMAIN tree <=> p = SM!Root \/ \E x \in S : p \in Prefixes(x[2])
  BY DEF TreeOf
<1>2. ASSUME NEW p \in DOMAIN tree PROVE p \in Paths /\ Prefixes(p) \subseteq DOMAIN tree
  <2>1. CASE p = SM!Root
    <3>1. p \in Paths /\ p = <<>>
      BY <2>1, PathOfIs, EmptySeq DEF Paths
    <3>2. \A q \in Prefixes(p) : q = <<>>
      <4> TAKE q \in Prefixes(p)
      <4>1. q \in Paths
        BY <3>1, PrefixesOf
      <4>2. Len(q) <= 0 /\ Len(q) \in Nat
        BY <3>1, <4>1, PrefixIs, EmptySeq, LenProperties DEF Paths
      <4> QED BY <4>1, <4>2, EmptySeq, LenProperties DEF Paths
    <3> QED BY <1>1, <2>1, <3>1, <3>2
  <2>2. CASE p # SM!Root
    <3>1. PICK x \in S : p \in Prefixes(x[2])
      BY <1>1, <2>2
    <3>2. x[2] \in Paths
      BY FiltersArePaths
    <3>3. p \in Paths /\ Prefixes(p) \subseteq Prefixes(x[2])
      BY <3>1, <3>2, PrefixesOf
    <3> QED BY <1>1, <3>3
  <2> QED BY <2>1, <2>2
<1>3. ASSUME NEW f \in Filters, NEW c \in Clients
      PROVE  /\ SM!Stored(tree, f) <=> f \in DOMAIN tree
             /\ SM!IsNew(tree, f, c) <=> <<c, f>> \notin S
  <2>1. f \in Paths /\ f # <<>> /\ f \in Prefixes(f)
    BY FiltersArePaths, PrefixesOf
  <2>2. SM!Stored(tree, f) <=> f \in DOMAIN tree
    BY <1>1, <1>2, <2>1, PathOfIs DEF SM!Stored
  <2>3. <<c, f>> \in S => f \in DOMAIN tree
    BY <1>1, <2>1
  <2>4. f \in DOMAIN tree => (c \in DOMAIN tree[f].subs <=> <<c, f>> \in S)
    BY DEF TreeOf
  <2> QED BY <2>2, <2>3, <2>4 DEF SM!IsNew
<1> QED BY <1>1, <1>2, <1>3

LEMMA PairsCounted ==
    ASSUME NEW S \in SUBSET Pairs, IsFiniteSet(S), NEW p
    PROVE  /\ IsFiniteSet(PairsBelow(S, p)) /\ Cardinality(PairsBelow(S, p)) \in Nat
           /\ Cardinality(PairsBelow(S, p)) = 0 <=> PairsBelow(S, p) = {}
           /\ \A x \in Pairs :
                /\ p \in Prefixes(x[2]) /\ x \notin S
                    => Cardinality(PairsBelow(S \union {x}, p)) = Cardinality(PairsBelow(S, p)) + 1
                /\ p \notin Prefixes(x[2]) \/ x \in S
                    => PairsBelow(S \union {x}, p) = PairsBelow(S, p)
                /\ p \in Prefixes(x[2]) /\ x \in S
                    => Cardinality(PairsBelow(S \ {x}, p)) = Cardinality(PairsBelow(S, p)) - 1
                /\ p \notin Prefixes(x[2]) \/ x \notin S
                    => PairsBelow(S \ {x}, p) = PairsBelow(S, p)
<1> DEFINE B == PairsBelow(S, p)
<1>1. IsFiniteSet(B) /\ Cardinality(B) \in Nat
  BY FS_Subset, FS_CardinalityType DEF PairsBelow
<1>2. Cardinality(B) = 0 <=> B = {}
  BY <1>1, FS_EmptySet
<1>3. ASSUME NEW x \in Pairs
      PROVE  /\ p \in Prefixes(x[2]) /\ x \notin S
                    => Cardinality(PairsBelow(S \union {x}, p)) = Cardinality(B) + 1
             /\ p \notin Prefixes(x[2]) \/ x \in S => PairsBelow(S \union {x}, p) = B
             /\ p \in Prefixes(x[2]) /\ x \in S
                    => Cardinality(PairsBelow(S \ {x}, p)) = Cardinality(B) - 1
             /\ p \notin Prefixes(x[2]) \/ x \notin S => PairsBelow(S \ {x}, p) = B
  <2>1. p \in Prefixes(x[2]) /\ x \notin S =>
            PairsBelow(S \union {x}, p) = B \union {x} /\ x \notin B
    BY DEF PairsBelow
  <2>2. p \notin Prefixes(x[2]) \/ x \in S => PairsBelow(S \union {x}, p) = B
    BY DEF PairsBelow
  <2>3. p \in Prefixes(x[2]) /\ x \in S => PairsBelow(S \ {x}, p) = B \ {x} /\ x \in B
    BY DEF PairsBelow
  <2>4. p \notin Prefixes(x[2]) \/ x \notin S => PairsBelow(S \ {x}, p) = B
    BY DEF PairsBelow
  <2> HIDE DEF B
  <2> QED BY <1>1, <2>1, <2>2, <2>3, <2>4, FS_AddElement, FS_RemoveElement
<1> QED BY <1>1, <1>2, <1>3

(* A subscription more. *)
OneMore(S, tree, c, f, sub, t) ==
    /\ TreeOf(t, S \union {<<c, f>>})
    /\ t[f].subs[c] = sub
    /\ \A x \in S : x # <<c, f>> => t[x[2]].subs[x[1]] = tree[x[2]].subs[x[1]]

LEMMA InsertedTree ==
    ASSUME NEW S \in SUBSET Pairs, IsFiniteSet(S), NEW tree, TreeOf(tree, S),
           NEW f \in Filters, NEW c \in Clients, NEW sub \in SubValues,
           NEW t, t = SM!Inserted(tree, f, c, sub)
    PROVE  OneMore(S, tree, c, f, sub, t)
<1> DEFINE x == <<c, f>>
           S2 == S \union {x}
<1>1. f \in Paths /\ f # <<>> /\ f \in Prefixes(f) /\ Prefixes(f) \subseteq Paths
  BY FiltersArePaths, PrefixesOf
<1>2. tree \in Trees
  BY DEF TreeOf
<1>3. InsertsSub(tree, f, c, sub, t)
  BY <1>1, <1>2, InsertedIs
<1>4. t \in Trees /\ f \in DOMAIN t /\ DOMAIN t = DOMAIN tree \union SM!PathOf(f)
  BY <1>3 DEF InsertsSub
<1>5. x \in Pairs /\ x[2] = f /\ S2 \in SUBSET Pairs
  BY DEF Pairs
<1>6. SM!PathOf(f) = Prefixes(f) \ {SM!Root} /\ SM!Root = <<>>
  BY PathOfIs
<1>7. /\ SM!Root \in DOMAIN tree
      /\ \A p : p \in DOMAIN tree <=> p = SM!Root \/ \E y \in S : p \in Prefixes(y[2])
      /\ \A p \in DOMAIN tree : Prefixes(p) \subseteq DOMAIN tree /\ p \in Paths
      /\ SM!Stored(tree, f) <=> f \in DOMAIN tree
      /\ SM!IsNew(tree, f, c) <=> x \notin S
  BY TreeNodesAre
<1> HIDE DEF x, S2
<1>8. DOMAIN t = {SM!Root} \union UNION {Prefixes(y[2]) : y \in S2}
  BY <1>4, <1>5, <1>6, <1>7 DEF S2
<1>9. \A p \in DOMAIN t : NodeAt(tree, p) = IF p \in DOMAIN tree THEN tree[p] ELSE SM!NewNode
  BY DEF NodeAt
<1>10. ASSUME NEW p \in DOMAIN t
       PROVE  p # SM!Root => t[p].count = Cardinality(PairsBelow(S2, p))
  <2> SUFFICES ASSUME p # SM!Root PROVE t[p].count = Cardinality(PairsBelow(S2, p))
    OBVIOUS
  <2>1. t[p].count = IF p \in SM!PathOf(f) /\ p \in DOMAIN tree /\ SM!IsNew(tree, f, c)
                     THEN NodeAt(tree, p).count + 1 ELSE NodeAt(tree, p).count
    BY <1>3 DEF InsertsSub
  <2>2. CASE p \in DOMAIN tree
    <3>1. tree[p].count = Cardinality(PairsBelow(S, p))
      BY <2>2 DEF TreeOf
    <3>2. p \in Prefixes(f) /\ x \notin S
            => Cardinality(PairsBelow(S2, p)) = Cardinality(PairsBelow(S, p)) + 1
      BY <1>5, PairsCounted DEF S2
    <3>3. p \notin Prefixes(f) \/ x \in S => PairsBelow(S2, p) = PairsBelow(S, p)
      BY <1>5, PairsCounted DEF S2
    <3> QED BY <1>6, <1>7, <1>9, <2>1, <2>2, <3>1, <3>2, <3>3
  <2>3. CASE p \notin DOMAIN tree
    <3>1. p \in Prefixes(f)
      BY <1>4, <1>6, <2>3
    <3>2. PairsBelow(S, p) = {} /\ x \notin S
      BY <1>5, <1>7, <2>3, <3>1 DEF PairsBelow
    <3>3. Cardinality(PairsBelow(S2, p)) = 1
      <4>1. Cardinality(PairsBelow(S, p)) = 0
        BY <3>2, PairsCounted
      <4>2. Cardinality(PairsBelow(S2, p)) = Cardinality(PairsBelow(S, p)) + 1
        BY <1>5, <3>1, <3>2, PairsCounted DEF S2
      <4> QED BY <4>1, <4>2
    <3>4. SM!NewNode.count = 1
      BY DEF SM!NewNode
    <3> QED BY <1>9, <2>1, <2>3, <3>3, <3>4
  <2> QED BY <2>2, <2>3
<1>11. ASSUME NEW p \in DOMAIN t, NEW level \in {SM!Plus, SM!Hash}
       PROVE  Append(p, level) \in DOMAIN t
                <=> (p \in DOMAIN tree /\ Append(p, level) \in DOMAIN tree)
                        \/ (~SM!Stored(tree, f) /\ NewBelow(tree, f, p, level))
  <2>1. p \in Paths /\ level \in Levels
    BY <1>1, <1>4, <1>6, <1>7 DEF Levels
  <2> DEFINE q == Append(p, level)
  <2>2. /\ q \in Paths /\ q # <<>> /\ q # p
        /\ q \in Prefixes(f) <=> p \in Prefixes(f) /\ p # f /\ SM!LevelBelow(p, f) = level
        /\ p \in Prefixes(q)
    <3>1. q \in Paths /\ q # <<>> /\ q # p
      BY <2>1, PrefixesBelow
    <3>2. q \in Prefixes(f) <=> p \in Prefixes(f) /\ p # f /\ SM!LevelBelow(p, f) = level
      BY <1>1, <2>1, PrefixesBelow
    <3>3. q \in Prefixes(q)
      BY <3>1, PrefixesOf
    <3>4. q \in Prefixes(q) <=> p \in Prefixes(q) /\ p # q /\ SM!LevelBelow(p, q) = level
      BY <3>1, <2>1, PrefixesBelow
    <3> QED BY <3>1, <3>2, <3>3, <3>4
  <2>3. q \in DOMAIN tree => p \in DOMAIN tree
    BY <1>7, <2>2
  <2>4. SM!Stored(tree, f) => Prefixes(f) \subseteq DOMAIN tree
    BY <1>7
  <2>5. NewBelow(tree, f, p, level) <=> q \in Prefixes(f) /\ q \notin DOMAIN tree
    BY <2>2 DEF NewBelow
  <2>6. q \in DOMAIN t <=> q \in DOMAIN tree \/ q \in Prefixes(f)
    BY <1>4, <1>6, <1>7
  <2> HIDE DEF q
  <2>7. q \in DOMAIN t <=> (p \in DOMAIN tree /\ q \in DOMAIN tree)
                        \/ (~SM!Stored(tree, f) /\ NewBelow(tree, f, p, level))
    BY <2>3, <2>4, <2>5, <2>6
  <2> QED BY <2>7 DEF q
<1>12. ASSUME NEW p \in DOMAIN t
       PROVE  /\ t[p].plus <=> Append(p, SM!Plus) \in DOMAIN t
              /\ t[p].hash <=> Append(p, SM!Hash) \in DOMAIN t
  <2>1. /\ t[p].plus <=> NodeAt(tree, p).plus
                            \/ (~SM!Stored(tree, f) /\ NewBelow(tree, f, p, SM!Plus))
        /\ t[p].hash <=> NodeAt(tree, p).hash
                            \/ (~SM!Stored(tree, f) /\ NewBelow(tree, f, p, SM!Hash))
    BY <1>3 DEF InsertsSub
  <2>2. /\ NodeAt(tree, p).plus <=> p \in DOMAIN tree /\ Append(p, SM!Plus) \in DOMAIN tree
        /\ NodeAt(tree, p).hash <=> p \in DOMAIN tree /\ Append(p, SM!Hash) \in DOMAIN tree
    <3>1. CASE p \in DOMAIN tree
      BY <1>9, <3>1 DEF TreeOf
    <3>2. CASE p \notin DOMAIN tree
      BY <1>9, <3>2 DEF SM!NewNode
    <3> QED BY <3>1, <3>2
  <2>3. /\ Append(p, SM!Plus) \in DOMAIN t
            <=> (p \in DOMAIN tree /\ Append(p, SM!Plus) \in DOMAIN tree)
                    \/ (~SM!Stored(tree, f) /\ NewBelow(tree, f, p, SM!Plus))
        /\ Append(p, SM!Hash) \in DOMAIN t
            <=> (p \in DOMAIN tree /\ Append(p, SM!Hash) \in DOMAIN tree)
                    \/ (~SM!Stored(tree, f) /\ NewBelow(tree, f, p, SM!Hash))
    BY <1>11
  <2> QED BY <2>1, <2>2, <2>3
<1>13. DOMAIN NodeAt(tree, f).subs = {k \in Clients : <<k, f>> \in S}
  <2>1. CASE f \in DOMAIN tree
    BY <1>4, <1>9, <2>1 DEF TreeOf
  <2>2. CASE f \notin DOMAIN tree
    <3>1. \A k : <<k, f>> \notin S
      BY <1>1, <1>7, <2>2
    <3> QED BY <1>4, <1>9, <2>2, <3>1, NewNodeType
  <2> QED BY <2>1, <2>2
<1>14. t[f].subs = [k \in DOMAIN NodeAt(tree, f).subs \union {c} |->
                        IF k = c THEN sub ELSE NodeAt(tree, f).subs[k]]
  BY <1>3 DEF InsertsSub
<1>15. ASSUME NEW p \in DOMAIN t
       PROVE  DOMAIN t[p].subs = {k \in Clients : <<k, p>> \in S2}
  <2>1. CASE p = f
    BY <1>13, <1>14, <2>1 DEF S2, x
  <2>2. CASE p # f
    <3>1. t[p].subs = NodeAt(tree, p).subs
      BY <1>3, <2>2 DEF InsertsSub
    <3>2. \A k \in Clients : <<k, p>> \in S2 <=> <<k, p>> \in S
      BY <2>2 DEF S2, x
    <3>3. CASE p \in DOMAIN tree
      <4>1. DOMAIN tree[p].subs = {k \in Clients : <<k, p>> \in S}
        BY <3>3 DEF TreeOf
      <4> QED BY <1>9, <3>1, <3>2, <3>3, <4>1
    <3>4. CASE p \notin DOMAIN tree
      <4>1. \A k \in Clients : <<k, p>> \notin S
        <5> SUFFICES ASSUME NEW k \in Clients, <<k, p>> \in S PROVE FALSE
          OBVIOUS
        <5>1. p \in Filters
          BY FiltersArePaths
        <5>2. p \in Prefixes(p)
          BY <5>1, FiltersArePaths, PrefixesOf
        <5> QED BY <1>7, <3>4, <5>2
      <4> QED BY <1>9, <3>1, <3>2, <3>4, <4>1, NewNodeType
    <3> QED BY <3>3, <3>4
  <2> QED BY <2>1, <2>2
<1>16. TreeOf(t, S2)
  BY <1>4, <1>8, <1>10, <1>12, <1>15 DEF TreeOf
<1>17. ASSUME NEW y \in S, y # x PROVE t[y[2]].subs[y[1]] = tree[y[2]].subs[y[1]]
  <2>1. y = <<y[1], y[2]>> /\ y[2] \in Filters /\ y[1] \in Clients
    BY FiltersArePaths
  <2>2. y[2] \in DOMAIN tree
    BY <1>7, <2>1, FiltersArePaths, PrefixesOf
  <2>3. CASE y[2] = f
    <3>1. y[1] # c
      BY <1>17, <2>1, <2>3 DEF x
    <3>2. y[1] \in DOMAIN NodeAt(tree, f).subs
      BY <1>13, <2>1, <2>3
    <3>3. NodeAt(tree, f) = tree[f]
      BY <1>4, <1>9, <2>2, <2>3
    <3> QED BY <1>14, <2>3, <3>1, <3>2, <3>3
  <2>4. CASE y[2] # f
    <3>1. y[2] \in DOMAIN t
      BY <1>4, <2>2
    <3>2. t[y[2]].subs = NodeAt(tree, y[2]).subs
      BY <1>3, <2>4, <3>1 DEF InsertsSub
    <3> QED BY <1>9, <2>2, <3>1, <3>2
  <2> QED BY <2>3, <2>4
<1>18. t[f].subs[c] = sub
  BY <1>14
<1> QED BY <1>16, <1>17, <1>18 DEF S2, x, OneMore

(* A subscription less. *)
OneLess(S, tree, c, f, t) ==
    /\ TreeOf(t, S \ {<<c, f>>})
    /\ \A x \in S : x # <<c, f>> => t[x[2]].subs[x[1]] = tree[x[2]].subs[x[1]]

LEMMA ErasedTree ==
    ASSUME NEW S \in SUBSET Pairs, IsFiniteSet(S), NEW tree, TreeOf(tree, S),
           NEW f \in Filters, NEW c \in Clients,
           NEW t, t = SM!Erased(tree, f, c)
    PROVE  OneLess(S, tree, c, f, t)
<1> DEFINE x == <<c, f>>
           S2 == S \ {x}
<1>1. f \in Paths /\ f # <<>> /\ f \in Prefixes(f) /\ Prefixes(f) \subseteq Paths
  BY FiltersArePaths, PrefixesOf
<1>2. tree \in Trees
  BY DEF TreeOf
<1>3. x \in Pairs /\ x[2] = f /\ S2 \in SUBSET Pairs
  BY DEF Pairs
<1>4. SM!PathOf(f) = Prefixes(f) \ {SM!Root} /\ SM!Root = <<>>
  BY PathOfIs
<1>5. /\ SM!Root \in DOMAIN tree
      /\ \A p : p \in DOMAIN tree <=> p = SM!Root \/ \E y \in S : p \in Prefixes(y[2])
      /\ \A p \in DOMAIN tree : Prefixes(p) \subseteq DOMAIN tree /\ p \in Paths
      /\ SM!Stored(tree, f) <=> f \in DOMAIN tree
      /\ SM!IsNew(tree, f, c) <=> x \notin S
  BY TreeNodesAre
<1> HIDE DEF x, S2
<1>6. CASE x \notin S
  <2>1. t = tree /\ S2 = S
    BY <1>5, <1>6 DEF SM!Erased, S2
  <2> QED BY <2>1 DEF S2, x, OneLess
<1>7. CASE x \in S
  <2>1. ErasesSub(tree, f, c, t)
    <3>1. SM!Stored(tree, f) /\ ~SM!IsNew(tree, f, c)
      BY <1>1, <1>3, <1>5, <1>7
    <3> QED BY <1>1, <1>2, <1>5, <3>1, ErasedIs
  <2>2. t \in Trees /\ DOMAIN t = DOMAIN tree \ LastOn(tree, f)
    BY <2>1 DEF ErasesSub
  <2>3. Prefixes(f) \subseteq DOMAIN tree
    BY <1>1, <1>3, <1>5, <1>7
  <2>4. \A p \in DOMAIN tree : p \in LastOn(tree, f)
            <=> p # SM!Root /\ p \in Prefixes(f) /\ Cardinality(PairsBelow(S, p)) = 1
    BY <1>4, <2>3 DEF LastOn, TreeOf
  <2>5. \A p : p \in Prefixes(f)
            => Cardinality(PairsBelow(S2, p)) = Cardinality(PairsBelow(S, p)) - 1
    BY <1>3, <1>7, PairsCounted DEF S2
  <2>6. \A p : p \notin Prefixes(f) => PairsBelow(S2, p) = PairsBelow(S, p)
    BY <1>3, <1>7, PairsCounted DEF S2
  <2>7. \A p : /\ Cardinality(PairsBelow(S, p)) \in Nat
               /\ Cardinality(PairsBelow(S2, p)) = 0 <=> PairsBelow(S2, p) = {}
    <3>1. IsFiniteSet(S2)
      BY FS_Subset DEF S2
    <3> QED BY <1>3, <3>1, PairsCounted
  <2>8. \A p \in DOMAIN tree :
            p \in DOMAIN t <=> p = SM!Root \/ PairsBelow(S2, p) # {}
    <3> TAKE p \in DOMAIN tree
    <3>1. CASE p \in Prefixes(f)
      <4>1. PairsBelow(S2, p) = {} <=> Cardinality(PairsBelow(S, p)) = 1
        BY <2>5, <2>7, <3>1
      <4> QED BY <2>2, <2>4, <3>1, <4>1
    <3>2. CASE p \notin Prefixes(f)
      <4>1. p = SM!Root \/ PairsBelow(S, p) # {}
        BY <1>5 DEF PairsBelow
      <4> QED BY <2>2, <2>4, <2>6, <3>2, <4>1
    <3> QED BY <3>1, <3>2
  <2>9. DOMAIN t = {SM!Root} \union UNION {Prefixes(y[2]) : y \in S2}
    <3>1. \A p : p \in DOMAIN t => p = SM!Root \/ \E y \in S2 : p \in Prefixes(y[2])
      BY <2>2, <2>8 DEF PairsBelow
    <3>2. \A y \in S2 : \A p \in Prefixes(y[2]) : p \in DOMAIN tree /\ PairsBelow(S2, p) # {}
      BY <1>5 DEF PairsBelow, S2
    <3>3. \A y \in S2 : \A p \in Prefixes(y[2]) : p \in DOMAIN t
      BY <2>8, <3>2
    <3>4. SM!Root \in DOMAIN t
      BY <1>5, <2>8
    <3> QED BY <3>1, <3>3, <3>4
  <2>10. ASSUME NEW p \in DOMAIN t
         PROVE  p # SM!Root => t[p].count = Cardinality(PairsBelow(S2, p))
    <3>1. p # SM!Root => tree[p].count = Cardinality(PairsBelow(S, p))
      BY <2>2 DEF TreeOf
    <3>2. t[p].count = IF p \in SM!PathOf(f) THEN tree[p].count - 1 ELSE tree[p].count
      BY <2>1 DEF ErasesSub
    <3> QED BY <1>4, <2>5, <2>6, <3>1, <3>2
  <2>11. ASSUME NEW p \in DOMAIN t, NEW level \in {SM!Plus, SM!Hash}
         PROVE  Append(p, level) \in DOMAIN t
                  <=> Append(p, level) \in DOMAIN tree
                        /\ ~(/\ p \in Prefixes(f) /\ p # f /\ SM!LevelBelow(p, f) = level
                             /\ Append(p, level) \in LastOn(tree, f))
    <3>1. p \in Paths /\ level \in Levels
      BY <1>5, <2>2 DEF Levels
    <3>2. Append(p, level) \in Prefixes(f)
            <=> p \in Prefixes(f) /\ p # f /\ SM!LevelBelow(p, f) = level
      BY <1>1, <3>1, PrefixesBelow
    <3>3. \A q : q \in LastOn(tree, f) => q \in Prefixes(f)
      BY <1>4 DEF LastOn
    <3> QED BY <2>2, <3>2, <3>3
  <2>12. ASSUME NEW p \in DOMAIN t
         PROVE  /\ t[p].plus <=> Append(p, SM!Plus) \in DOMAIN t
                /\ t[p].hash <=> Append(p, SM!Hash) \in DOMAIN t
    <3>1. /\ tree[p].plus <=> Append(p, SM!Plus) \in DOMAIN tree
          /\ tree[p].hash <=> Append(p, SM!Hash) \in DOMAIN tree
      BY <2>2 DEF TreeOf
    <3>2. /\ t[p].plus <=> tree[p].plus
                            /\ ~(/\ p \in Prefixes(f) /\ p # f /\ SM!LevelBelow(p, f) = SM!Plus
                                 /\ Append(p, SM!Plus) \in LastOn(tree, f))
          /\ t[p].hash <=> tree[p].hash
                            /\ ~(/\ p \in Prefixes(f) /\ p # f /\ SM!LevelBelow(p, f) = SM!Hash
                                 /\ Append(p, SM!Hash) \in LastOn(tree, f))
      BY <2>1 DEF ErasesSub
    <3>3. Append(p, SM!Plus) \in DOMAIN t
                  <=> Append(p, SM!Plus) \in DOMAIN tree
                        /\ ~(/\ p \in Prefixes(f) /\ p # f /\ SM!LevelBelow(p, f) = SM!Plus
                             /\ Append(p, SM!Plus) \in LastOn(tree, f))
      BY <2>11
    <3>4. Append(p, SM!Hash) \in DOMAIN t
                  <=> Append(p, SM!Hash) \in DOMAIN tree
                        /\ ~(/\ p \in Prefixes(f) /\ p # f /\ SM!LevelBelow(p, f) = SM!Hash
                             /\ Append(p, SM!Hash) \in LastOn(tree, f))
      BY <2>11
    <3> QED BY <3>1, <3>2, <3>3, <3>4
  <2>13. ASSUME NEW p \in DOMAIN t
         PROVE  /\ p # f => t[p].subs = tree[p].subs
                /\ p = f => t[p].subs = [k \in DOMAIN tree[f].subs \ {c} |-> tree[f].subs[k]]
                /\ DOMAIN tree[p].subs = {k \in Clients : <<k, p>> \in S}
    BY <2>1, <2>2 DEF ErasesSub, TreeOf
  <2>14. ASSUME NEW p \in DOMAIN t
         PROVE  DOMAIN t[p].subs = {k \in Clients : <<k, p>> \in S2}
    <3>1. CASE p # f
      <4>1. \A k : <<k, p>> \in S2 <=> <<k, p>> \in S
        BY <3>1 DEF S2, x
      <4> QED BY <2>13, <3>1, <4>1
    <3>2. CASE p = f
      <4>1. DOMAIN t[p].subs = DOMAIN tree[p].subs \ {c}
        BY <2>13, <3>2
      <4>2. \A k \in Clients : <<k, p>> \in S2 <=> <<k, p>> \in S /\ k # c
        BY <3>2 DEF S2, x
      <4> QED BY <2>13, <4>1, <4>2
    <3> QED BY <3>1, <3>2
  <2>15. TreeOf(t, S2)
    BY <2>2, <2>9, <2>10, <2>12, <2>14 DEF TreeOf
  <2>16. ASSUME NEW y \in S, y # x PROVE t[y[2]].subs[y[1]] = tree[y[2]].subs[y[1]]
    <3>1. y = <<y[1], y[2]>> /\ y[2] \in Filters /\ y[1] \in Clients
      BY FiltersArePaths
    <3>2. y[2] \in DOMAIN t
      BY <2>9, <2>16, <3>1, FiltersArePaths, PrefixesOf DEF S2
    <3>3. CASE y[2] = f
      <4>1. y[1] # c
        BY <2>16, <3>1, <3>3 DEF x
      <4>2. y[1] \in DOMAIN tree[f].subs
        <5>1. DOMAIN tree[f].subs = {k \in Clients : <<k, f>> \in S}
          BY <2>13, <3>2, <3>3
        <5>2. <<y[1], f>> \in S
          BY <2>16, <3>1, <3>3
        <5> QED BY <3>1, <5>1, <5>2
      <4>3. t[f].subs = [k \in DOMAIN tree[f].subs \ {c} |-> tree[f].subs[k]]
        BY <2>13, <3>2, <3>3
      <4> QED BY <3>3, <4>1, <4>2, <4>3
    <3>4. CASE y[2] # f
      BY <2>13, <3>2, <3>4
    <3> QED BY <3>3, <3>4
  <2> QED BY <2>15, <2>16 DEF S2, x, OneLess
<1> QED BY <1>6, <1>7

-----------------------------------------------------------------------------
(* The search *)

(* A path that is not empty is a path and a level more. *)
LEMMA PathSplit ==
    ASSUME NEW q \in Paths, q # <<>>
    PROVE  \E p \in Paths, level \in Levels :
              /\ q = Append(p, level) /\ p \in Prefixes(q) /\ Len(q) = Len(p) + 1
              /\ level = q[Len(q)] /\ \A j \in 1..Len(p) : p[j] = q[j]
<1> DEFINE n == Len(q)
           p == SubSeq(q, 1, n - 1)
<1>1. n \in Nat /\ n # 0 /\ \A j \in 1..n : q[j] \in Levels
  BY EmptySeq, LenProperties DEF Paths
<1>2. /\ p \in Paths /\ Len(p) = n - 1
      /\ \A j \in 1..(n - 1) : p[j] = q[j]
  <2>1. \A m \in 0..Len(q) :
          /\ SubSeq(q, 1, m) \in Paths /\ Len(SubSeq(q, 1, m)) = m
          /\ \A j \in 1..m : SubSeq(q, 1, m)[j] = q[j]
    BY <1>1, SubSeqProperties DEF Paths
  <2>2. n - 1 \in 0..Len(q)
    BY <1>1
  <2> QED BY <2>1, <2>2
<1>3. p \in Prefixes(q)
  BY <1>1 DEF Prefixes
<1>4. n \in 1..n
  BY <1>1
<1> HIDE DEF p
<1> DEFINE a == Append(p, q[n])
<1>5. /\ a \in Paths /\ Len(a) = n
      /\ \A j \in 1..(n - 1) : a[j] = p[j]
      /\ a[n] = q[n]
  <2>1. q[n] \in Levels
    BY <1>1, <1>4
  <2>2. (n - 1) + 1 = n
    BY <1>1
  <2> HIDE DEF n
  <2> QED BY <1>2, <2>1, <2>2, AppendProperties DEF Paths
<1> HIDE DEF a
<1>6. \A j \in 1..n : a[j] = q[j]
  <2>1. \A j \in 1..n : j = n \/ j \in 1..(n - 1)
    BY <1>1
  <2> QED BY <1>2, <1>5, <2>1
<1>7. a = q
  BY <1>1, <1>5, <1>6, SeqEqual DEF Paths
<1> QED BY <1>1, <1>2, <1>3, <1>4, <1>7 DEF a

(* The first levels of a topic lead to p. *)
Leads(p, topic) ==
    /\ \A j \in 1..Len(p) : p[j] = topic[j] \/ p[j] = SM!Plus
    /\ p # <<>> /\ p[1] = SM!Plus => topic[1] \notin SystemLevels

LevelOf(tree, topic, i) == {p \in DOMAIN tree : Len(p) = i /\ Leads(p, topic)}

LEMMA ChildrenAre ==
    ASSUME NEW S \in SUBSET Pairs, NEW tree, TreeOf(tree, S),
           NEW topic \in Paths, NEW i \in 1..Len(topic)
    PROVE  UNION {SM!Children(tree, p, topic[i]) : p \in LevelOf(tree, topic, i - 1)}
                = LevelOf(tree, topic, i)
<1>1. /\ \A p \in DOMAIN tree : p \in Paths /\ Prefixes(p) \subseteq DOMAIN tree
      /\ \A p \in DOMAIN tree : tree[p].plus <=> Append(p, SM!Plus) \in DOMAIN tree
  BY TreeNodesAre DEF TreeOf
<1>2. /\ Len(topic) \in Nat /\ i \in Nat /\ topic[i] \in Levels /\ SM!Plus \in Levels
      /\ SM!Root = <<>>
  BY LenProperties, PathOfIs DEF Paths, Levels
<1>3. \A p \in Paths, level \in Levels :
        /\ Len(Append(p, level)) = Len(p) + 1 /\ Len(p) \in Nat
        /\ \A j \in 1..Len(p) : Append(p, level)[j] = p[j]
        /\ Append(p, level)[Len(p) + 1] = level
        /\ Append(p, level) # <<>>
        /\ Len(p) = 0 <=> p = <<>>
  BY AppendProperties, LenProperties, EmptySeq, PrefixesBelow DEF Paths
<1>4. ASSUME NEW p \in LevelOf(tree, topic, i - 1), NEW q \in SM!Children(tree, p, topic[i])
      PROVE  q \in LevelOf(tree, topic, i)
  <2>1. p \in DOMAIN tree /\ p \in Paths /\ Len(p) = i - 1 /\ Leads(p, topic)
    BY <1>1 DEF LevelOf
  <2>2. PICK level \in Levels :
          /\ q = Append(p, level) /\ q \in DOMAIN tree
          /\ level = topic[i] \/ level = SM!Plus
          /\ level # topic[i] => p # SM!Root \/ topic[i] \notin SystemLevels
    BY <1>2 DEF SM!Children, SM!WildcardMayMatch
  <2>3. /\ Len(q) = i /\ q # <<>>
        /\ \A j \in 1..(i - 1) : q[j] = p[j]
        /\ q[i] = level
    BY <1>2, <1>3, <2>1, <2>2
  <2>4. \A j \in 1..Len(q) : q[j] = topic[j] \/ q[j] = SM!Plus
    <3>1. \A j \in 1..i : j = i \/ j \in 1..(i - 1)
      BY <1>2
    <3> QED BY <2>1, <2>2, <2>3, <3>1 DEF Leads
  <2>5. q[1] = SM!Plus => topic[1] \notin SystemLevels
    <3>1. CASE i = 1
      <4>1. p = SM!Root
        BY <1>2, <1>3, <2>1, <3>1
      <4> QED BY <2>2, <2>3, <3>1, <4>1, TopicsAssumption
    <3>2. CASE i # 1
      <4>1. 1 \in 1..(i - 1) /\ p # <<>>
        BY <1>2, <1>3, <2>1, <3>2
      <4> QED BY <2>1, <2>3, <4>1 DEF Leads
    <3> QED BY <3>1, <3>2
  <2> QED BY <2>2, <2>3, <2>4, <2>5 DEF LevelOf, Leads
<1>5. ASSUME NEW q \in LevelOf(tree, topic, i)
      PROVE  \E p \in LevelOf(tree, topic, i - 1) : q \in SM!Children(tree, p, topic[i])
  <2>1. q \in DOMAIN tree /\ q \in Paths /\ Len(q) = i /\ Leads(q, topic) /\ q # <<>>
    BY <1>1, <1>2, <1>3 DEF LevelOf
  <2>2. PICK p \in Paths, level \in Levels :
          /\ q = Append(p, level) /\ p \in Prefixes(q) /\ Len(q) = Len(p) + 1
          /\ level = q[Len(q)] /\ \A j \in 1..Len(p) : p[j] = q[j]
    BY <2>1, PathSplit
  <2>3. Len(p) = i - 1 /\ p \in DOMAIN tree
    BY <1>1, <1>2, <1>3, <2>1, <2>2
  <2>4. Leads(p, topic)
    <3>1. \A j \in 1..(i - 1) : j \in 1..i
      BY <1>2
    <3>2. p # <<>> => 1 \in 1..(i - 1)
      BY <1>2, <1>3, <2>3
    <3> QED BY <2>1, <2>2, <2>3, <3>1, <3>2 DEF Leads
  <2>5. level = topic[i] \/ level = SM!Plus
    <3>1. i \in 1..i
      BY <1>2
    <3> QED BY <2>1, <2>2, <3>1 DEF Leads
  <2>6. level = SM!Plus => tree[p].plus
    BY <1>1, <2>1, <2>2, <2>3
  <2>7. level = SM!Plus => SM!WildcardMayMatch(p, topic[i])
    <3>1. p = <<>> => i = 1
      BY <1>2, <1>3, <2>3
    <3> QED BY <1>2, <2>1, <2>2, <3>1 DEF Leads, SM!WildcardMayMatch
  <2>8. q \in SM!Children(tree, p, topic[i])
    BY <2>1, <2>2, <2>5, <2>6, <2>7 DEF SM!Children
  <2> QED BY <2>3, <2>4, <2>8 DEF LevelOf
<1> QED BY <1>4, <1>5

(* The nodes the search is at after i levels of the topic. *)
LEMMA EntriesAre ==
    ASSUME NEW S \in SUBSET Pairs, NEW tree, TreeOf(tree, S), NEW topic \in Paths
    PROVE  \A i \in 0..Len(topic) : SM!Entries(tree, topic)[i] = LevelOf(tree, topic, i)
<1> DEFINE n == Len(topic)
           Down(s, i) == UNION {SM!Children(tree, p, topic[i]) : p \in s}
           Is(g) == g = [i \in 0..n |-> IF i = 0 THEN {SM!Root} ELSE Down(g[i - 1], i)]
           h == [i \in 0..n |-> LevelOf(tree, topic, i)]
<1>1. n \in Nat
  BY LenProperties DEF Paths
<1>2. LevelOf(tree, topic, 0) = {SM!Root}
  <2>1. SM!Root = <<>> /\ SM!Root \in DOMAIN tree /\ Len(<<>>) = 0
    BY PathOfIs, EmptySeq DEF TreeOf
  <2>2. \A p \in DOMAIN tree : Len(p) = 0 <=> p = <<>>
    BY TreeNodesAre, EmptySeq DEF Paths
  <2>3. Leads(<<>>, topic)
    BY <2>1 DEF Leads
  <2> QED BY <2>1, <2>2, <2>3 DEF LevelOf
<1>3. \A i \in 0..n : i # 0 => LevelOf(tree, topic, i) = Down(h[i - 1], i)
  <2> TAKE i \in 0..n
  <2> HAVE i # 0
  <2>1. i \in 1..n /\ i - 1 \in 0..n
    BY <1>1
  <2>2. h[i - 1] = LevelOf(tree, topic, i - 1)
    BY <2>1
  <2>3. LevelOf(tree, topic, i) = Down(LevelOf(tree, topic, i - 1), i)
    BY <2>1, ChildrenAre
  <2> QED BY <2>2, <2>3
<1>4. SM!Entries(tree, topic) = CHOOSE fn : Is(fn)
  BY DEF SM!Entries
<1> HIDE DEF Down
<1>5. Is(h)
  BY <1>2, <1>3
<1> HIDE DEF Is
<1> DEFINE R == SM!Entries(tree, topic)
<1>6. Is(R)
  BY <1>4, <1>5
<1> HIDE DEF R
<1>7. R = [i \in 0..n |-> IF i = 0 THEN {SM!Root} ELSE Down(R[i - 1], i)]
  BY <1>6 DEF Is
<1> HIDE DEF n
<1> DEFINE K == {i \in 0..n : R[i] = LevelOf(tree, topic, i)}
<1>8. 0 \in K
  BY <1>1, <1>2, <1>7
<1>9. ASSUME NEW i \in 0..(n - 1), i \in K PROVE i + 1 \in K
  <2>1. i + 1 \in 0..n /\ i + 1 # 0 /\ (i + 1) - 1 = i /\ i \in 0..n
    BY <1>1
  <2>2. R[i + 1] = Down(R[i], i + 1)
    BY <1>7, <2>1
  <2>3. LevelOf(tree, topic, i + 1) = Down(h[i], i + 1)
    BY <1>3, <2>1
  <2>4. R[i] = h[i]
    BY <1>9, <2>1
  <2> QED BY <2>1, <2>2, <2>3, <2>4
<1> HIDE DEF K
<1>10. 0..n \subseteq K
  BY <1>1, <1>8, <1>9, Induction
<1> QED BY <1>10 DEF K, R, n

(* find_match() finds the nodes whose filter matches, and no others. *)
LEMMA FoundIs ==
    ASSUME NEW S \in SUBSET Pairs, NEW tree, TreeOf(tree, S), NEW topic \in Paths, topic # <<>>
    PROVE  SM!Found(tree, topic) = {f \in DOMAIN tree \ {SM!Root} : SM!Matches(f, topic)}
<1> DEFINE n == Len(topic)
           hashes(i) == {Append(p, SM!Hash) : p \in {q \in LevelOf(tree, topic, i) :
                            tree[q].hash /\ SM!WildcardMayMatch(q, topic[i + 1])}}
<1>1. n \in Nat /\ n # 0 /\ SM!Root = <<>> /\ \A j \in 1..n : topic[j] \in Levels
  BY LenProperties, EmptySeq, PathOfIs DEF Paths
<1>2. SM!Found(tree, topic) = LevelOf(tree, topic, n) \union UNION {hashes(i) : i \in 0..(n - 1)}
  <2> DEFINE E == SM!Entries(tree, topic)
             found(i) == {Append(p, SM!Hash) : p \in {q \in E[i] :
                            tree[q].hash /\ SM!WildcardMayMatch(q, topic[i + 1])}}
  <2>1. SM!Found(tree, topic) = E[n] \union UNION {found(i) : i \in 0..(n - 1)}
    BY DEF SM!Found
  <2>2. \A i \in 0..n : E[i] = LevelOf(tree, topic, i)
    BY EntriesAre
  <2> HIDE DEF E
  <2>3. n \in 0..n /\ \A i \in 0..(n - 1) : i \in 0..n
    BY <1>1
  <2>4. \A i \in 0..(n - 1) : found(i) = hashes(i)
    BY <2>2, <2>3
  <2> HIDE DEF found, hashes, n
  <2> QED BY <2>1, <2>2, <2>3, <2>4
<1> HIDE DEF hashes
<1>3. \A p \in DOMAIN tree : /\ p \in Paths /\ Prefixes(p) \subseteq DOMAIN tree
                             /\ Len(p) \in Nat /\ (Len(p) = 0 <=> p = <<>>)
                             /\ tree[p].hash <=> Append(p, SM!Hash) \in DOMAIN tree
  BY TreeNodesAre, EmptySeq, LenProperties DEF TreeOf, Paths
<1>4. SM!Hash \in Levels /\ SM!Plus \in Levels /\ SM!Plus # SM!Hash
  BY DEF Levels, SM!Plus, SM!Hash
<1>5. \A p \in Paths, level \in Levels :
        /\ Len(Append(p, level)) = Len(p) + 1
        /\ \A j \in 1..Len(p) : Append(p, level)[j] = p[j]
        /\ Append(p, level)[Len(p) + 1] = level
        /\ Append(p, level) # <<>>
  BY AppendProperties, PrefixesBelow DEF Paths
<1>6. ASSUME NEW f \in LevelOf(tree, topic, n)
      PROVE  f \in DOMAIN tree /\ f # <<>> /\ SM!Matches(f, topic)
  <2>1. f \in DOMAIN tree /\ Len(f) = n /\ Leads(f, topic) /\ f # <<>>
    BY <1>1, <1>3 DEF LevelOf
  <2>2. \A j \in 1..n : f[j] = topic[j] \/ f[j] = SM!Plus
    BY <2>1 DEF Leads
  <2>3. f[1] \in {SM!Plus, SM!Hash} => topic[1] \notin SystemLevels
    <3>1. 1 \in 1..n
      BY <1>1
    <3>2. f[1] = SM!Hash => topic[1] = SM!Hash
      BY <1>4, <2>2, <3>1
    <3> QED BY <2>1, <3>2, TopicsAssumption DEF Leads
  <2>4. \A j \in 1..(n - 1) : j \in 1..n
    BY <1>1
  <2> HIDE DEF n
  <2>5. Len(topic) = n
    BY DEF n
  <2>6. n >= n
    BY <1>1
  <2> QED BY <2>1, <2>2, <2>3, <2>4, <2>5, <2>6 DEF SM!Matches
<1>7. ASSUME NEW i \in 0..(n - 1), NEW f \in hashes(i)
      PROVE  f \in DOMAIN tree /\ f # <<>> /\ SM!Matches(f, topic)
  <2>1. PICK p \in LevelOf(tree, topic, i) :
          /\ tree[p].hash /\ SM!WildcardMayMatch(p, topic[i + 1]) /\ f = Append(p, SM!Hash)
    BY DEF hashes
  <2>2. p \in DOMAIN tree /\ p \in Paths /\ Len(p) = i /\ Leads(p, topic)
    BY <1>3 DEF LevelOf
  <2>3. f \in DOMAIN tree
    BY <1>3, <2>1, <2>2
  <2>4. /\ Len(f) = i + 1 /\ f # <<>>
        /\ \A j \in 1..i : f[j] = p[j]
        /\ f[i + 1] = SM!Hash
    BY <1>4, <1>5, <2>1, <2>2
  <2>5. n >= i + 1 /\ (i + 1) - 1 = i
    BY <1>1
  <2>6. \A j \in 1..i : f[j] = topic[j] \/ f[j] = SM!Plus
    BY <2>2, <2>4 DEF Leads
  <2>7. f[1] \in {SM!Plus, SM!Hash} => topic[1] \notin SystemLevels
    <3>1. CASE i = 0
      BY <1>1, <1>3, <2>1, <2>2, <3>1 DEF SM!WildcardMayMatch
    <3>2. CASE i # 0
      <4>1. 1 \in 1..i /\ p # <<>>
        BY <1>1, <1>3, <2>2, <3>2
      <4>2. f[1] = SM!Hash => topic[1] = SM!Hash
        BY <1>4, <2>6, <4>1
      <4> QED BY <2>2, <2>4, <4>1, <4>2, TopicsAssumption DEF Leads
    <3> QED BY <3>1, <3>2
  <2> HIDE DEF n
  <2>8. Len(topic) = n
    BY DEF n
  <2> QED BY <2>3, <2>4, <2>5, <2>6, <2>7, <2>8 DEF SM!Matches
<1>8. ASSUME NEW f \in DOMAIN tree, f # <<>>, SM!Matches(f, topic)
      PROVE  f \in LevelOf(tree, topic, n) \/ \E i \in 0..(n - 1) : f \in hashes(i)
  <2> DEFINE m == Len(f)
  <2>1. f \in Paths /\ m \in Nat /\ m # 0
    BY <1>3, <1>8
  <2>2. f[1] \in {SM!Plus, SM!Hash} => topic[1] \notin SystemLevels
    BY <1>8 DEF SM!Matches
  <2>3. CASE f[m] = SM!Hash
    <3>1. n >= m /\ \A j \in 1..(m - 1) : f[j] = topic[j] \/ f[j] = SM!Plus
      BY <1>8, <2>3 DEF SM!Matches
    <3>2. PICK p \in Paths, level \in Levels :
            /\ f = Append(p, level) /\ p \in Prefixes(f) /\ Len(f) = Len(p) + 1
            /\ level = f[Len(f)] /\ \A j \in 1..Len(p) : p[j] = f[j]
      BY <1>8, <2>1, PathSplit
    <3>3. /\ level = SM!Hash /\ p \in DOMAIN tree /\ Len(p) = m - 1
          /\ m - 1 \in 0..(n - 1) /\ (m - 1) + 1 = m
      BY <1>1, <1>3, <2>1, <2>3, <3>1, <3>2
    <3>4. tree[p].hash
      BY <1>3, <1>8, <3>2, <3>3
    <3>5. p # <<>> => 1 \in 1..(m - 1)
      BY <1>3, <2>1, <3>3
    <3>6. Leads(p, topic)
      BY <2>2, <3>1, <3>2, <3>3, <3>5 DEF Leads
    <3>7. SM!WildcardMayMatch(p, topic[(m - 1) + 1])
      <4>1. p = <<>> => m = 1
        BY <1>3, <2>1, <3>3
      <4> QED BY <1>1, <2>2, <2>3, <3>3, <4>1 DEF SM!WildcardMayMatch
    <3>8. f \in hashes(m - 1)
      BY <3>2, <3>3, <3>4, <3>6, <3>7 DEF hashes, LevelOf
    <3> QED BY <3>3, <3>8
  <2>4. CASE f[m] # SM!Hash
    <3>1. n = m /\ \A j \in 1..m : f[j] = topic[j] \/ f[j] = SM!Plus
      BY <1>8, <2>4 DEF SM!Matches
    <3>2. Leads(f, topic)
      BY <2>2, <3>1 DEF Leads
    <3> QED BY <1>8, <3>1, <3>2 DEF LevelOf
  <2> QED BY <2>3, <2>4
<1> HIDE DEF n
<1> QED BY <1>1, <1>2, <1>6, <1>7, <1>8

-----------------------------------------------------------------------------
(* The members of shared subscriptions *)

Shared == Clients \X Shares \X Filters

Members == [client : Clients, share : Shares, filters : SUBSET Filters]

MembersApart(ts) ==
    \A i, j \in DOMAIN ts : ts[i].client = ts[j].client /\ ts[i].share = ts[j].share => i = j

FiltersIn(H, e) == {f \in Filters : <<e.client, e.share, f>> \in H}

(* One entry for each client and share name that H calls for, with exactly
   the filters it calls for. *)
MembersOf(ts, H) ==
    /\ ts \in Seq(Members)
    /\ MembersApart(ts)
    /\ \A i \in DOMAIN ts : ts[i].filters # {} /\ ts[i].filters = FiltersIn(H, ts[i])
    /\ \A x \in H : HasMember(ts, x[1], x[2])

LEMMA PlaceIs ==
    ASSUME NEW ts \in Seq(Members), MembersApart(ts), NEW c, NEW share, HasMember(ts, c, share)
    PROVE  /\ PlaceOf(ts, c, share) \in DOMAIN ts
           /\ ts[PlaceOf(ts, c, share)].client = c /\ ts[PlaceOf(ts, c, share)].share = share
           /\ \A i \in DOMAIN ts : ts[i].client = c /\ ts[i].share = share
                                    => i = PlaceOf(ts, c, share)
<1>1. \E i \in DOMAIN ts : IsMember(ts[i], c, share)
  BY DEF HasMember
<1>2. PlaceOf(ts, c, share) \in DOMAIN ts /\ IsMember(ts[PlaceOf(ts, c, share)], c, share)
  BY <1>1 DEF PlaceOf
<1> QED BY <1>2 DEF IsMember, MembersApart

(* The filters of one entry are replaced. *)
Refilled(ts, i, filters, new) ==
    /\ new \in Seq(Members) /\ DOMAIN new = DOMAIN ts
    /\ \A j \in DOMAIN ts : /\ new[j].client = ts[j].client
                            /\ new[j].share = ts[j].share
                            /\ new[j].filters = IF j = i THEN filters ELSE ts[j].filters

LEMMA RefilledMember ==
    ASSUME NEW ts \in Seq(Members), NEW i \in DOMAIN ts, NEW filters \in SUBSET Filters,
           NEW new, new = [ts EXCEPT ![i].filters = filters]
    PROVE  Refilled(ts, i, filters, new)
<1> DEFINE With(e) == [e EXCEPT !.filters = filters]
<1>1. \A e \in Members : /\ With(e) \in Members /\ With(e).client = e.client
                         /\ With(e).share = e.share /\ With(e).filters = filters
  BY DEF Members
<1>2. /\ Len(ts) \in Nat /\ DOMAIN ts = 1..Len(ts) /\ ts \in [1..Len(ts) -> Members]
  BY LenProperties
<1>3. new = [j \in 1..Len(ts) |-> IF j = i THEN With(ts[j]) ELSE ts[j]]
  BY <1>2
<1> HIDE DEF With
<1>4. new \in [1..Len(ts) -> Members]
  BY <1>1, <1>2, <1>3
<1>5. new \in Seq(Members)
  BY <1>2, <1>4, IsASeq
<1> QED BY <1>1, <1>2, <1>3, <1>4, <1>5 DEF Refilled

LEMMA JoinedMember ==
    ASSUME NEW H \in SUBSET Shared, NEW ts, MembersOf(ts, H),
           NEW c \in Clients, NEW share \in Shares, NEW f \in Filters
    PROVE  MembersOf(Joined(ts, c, share, f), H \union {<<c, share, f>>})
<1> DEFINE x == <<c, share, f>>
           H2 == H \union {x}
           new == Joined(ts, c, share, f)
<1>1. /\ ts \in Seq(Members) /\ MembersApart(ts)
      /\ \A i \in DOMAIN ts : /\ ts[i].filters # {} /\ ts[i].filters = FiltersIn(H, ts[i])
                              /\ ts[i] \in Members
      /\ \A y \in H : HasMember(ts, y[1], y[2])
  BY LenProperties DEF MembersOf
<1>2. \A e, g : e.client = g.client /\ e.share = g.share => FiltersIn(H2, e) = FiltersIn(H2, g)
  BY DEF FiltersIn
<1>3. \A e : FiltersIn(H2, e) = IF e.client = c /\ e.share = share
                                THEN FiltersIn(H, e) \union {f} ELSE FiltersIn(H, e)
  BY DEF FiltersIn
<1>4. CASE HasMember(ts, c, share)
  <2> DEFINE i == PlaceOf(ts, c, share)
             filters == ts[i].filters \union {f}
  <2>1. /\ i \in DOMAIN ts /\ ts[i].client = c /\ ts[i].share = share
        /\ \A j \in DOMAIN ts : ts[j].client = c /\ ts[j].share = share => j = i
    BY <1>1, <1>4, PlaceIs
  <2>2. new = [ts EXCEPT ![i].filters = filters]
    BY <1>4 DEF Joined
  <2>3. filters \in SUBSET Filters
    BY <1>1, <2>1 DEF Members
  <2> HIDE DEF i, new, filters
  <2>4. /\ new \in Seq(Members) /\ DOMAIN new = DOMAIN ts
        /\ \A j \in DOMAIN ts : /\ new[j].client = ts[j].client
                                /\ new[j].share = ts[j].share
                                /\ new[j].filters = IF j = i THEN filters ELSE ts[j].filters
    <3>1. Refilled(ts, i, filters, new)
      BY <1>1, <2>1, <2>2, <2>3, RefilledMember
    <3> QED BY <3>1 DEF Refilled
  <2>5. MembersApart(new)
    BY <1>1, <2>4 DEF MembersApart
  <2>6. ASSUME NEW j \in DOMAIN new
        PROVE  new[j].filters # {} /\ new[j].filters = FiltersIn(H2, new[j])
    <3>1. FiltersIn(H2, new[j]) = FiltersIn(H2, ts[j])
      BY <1>2, <2>4
    <3>2. CASE j = i
      BY <1>1, <1>3, <2>1, <2>4, <3>1, <3>2 DEF filters
    <3>3. CASE j # i
      BY <1>1, <1>3, <2>1, <2>4, <3>1, <3>3
    <3> QED BY <3>2, <3>3
  <2>7. \A k, s : HasMember(ts, k, s) => HasMember(new, k, s)
    BY <2>4 DEF HasMember, IsMember
  <2>8. x[1] = c /\ x[2] = share
    OBVIOUS
  <2> HIDE DEF x
  <2>9. \A y \in H2 : HasMember(new, y[1], y[2])
    BY <1>1, <1>4, <2>7, <2>8 DEF H2
  <2> HIDE DEF H2
  <2> QED BY <2>4, <2>5, <2>6, <2>9 DEF MembersOf, new, H2, x
<1>5. CASE ~HasMember(ts, c, share)
  <2> DEFINE e == Member(c, share, {f})
             n == Len(ts) + 1
  <2>1. /\ e \in Members /\ e.client = c /\ e.share = share /\ e.filters = {f}
    BY DEF Member, Members
  <2>2. new = Append(ts, e)
    BY <1>5 DEF Joined
  <2> HIDE DEF e, new
  <2>3. /\ new \in Seq(Members) /\ DOMAIN new = DOMAIN ts \union {n} /\ n \notin DOMAIN ts
        /\ \A i \in DOMAIN ts : new[i] = ts[i]
        /\ new[n] = e
    BY <1>1, <2>1, <2>2, AfterAppend
  <2> HIDE DEF n
  <2>4. \A i \in DOMAIN ts : ~(ts[i].client = c /\ ts[i].share = share)
    BY <1>5 DEF HasMember, IsMember
  <2>5. MembersApart(new)
    BY <1>1, <2>1, <2>3, <2>4 DEF MembersApart
  <2>6. FiltersIn(H, e) = {}
    <3> SUFFICES ASSUME NEW g \in Filters, <<e.client, e.share, g>> \in H PROVE FALSE
      BY DEF FiltersIn
    <3>1. HasMember(ts, <<c, share, g>>[1], <<c, share, g>>[2])
      BY <1>1, <2>1
    <3> QED BY <1>5, <3>1
  <2>7. ASSUME NEW j \in DOMAIN new
        PROVE  new[j].filters # {} /\ new[j].filters = FiltersIn(H2, new[j])
    <3>1. CASE j = n
      BY <1>3, <2>1, <2>3, <2>6, <3>1
    <3>2. CASE j # n
      BY <1>1, <1>3, <2>3, <2>4, <3>2
    <3> QED BY <3>1, <3>2
  <2>8. \A k, s : HasMember(ts, k, s) \/ (k = c /\ s = share) => HasMember(new, k, s)
    BY <2>1, <2>3 DEF HasMember, IsMember
  <2>9. x[1] = c /\ x[2] = share
    OBVIOUS
  <2> HIDE DEF x
  <2>10. \A y \in H2 : HasMember(new, y[1], y[2])
    BY <1>1, <2>8, <2>9 DEF H2
  <2> HIDE DEF H2
  <2> QED BY <2>3, <2>5, <2>7, <2>10 DEF MembersOf, new, H2, x
<1> QED BY <1>4, <1>5

(* Every entry of the new sequence is one of the old, and all but those that
   may go are there still. *)
KeepsMembers(ts, new, H, H2) ==
    /\ new \in Seq(Members)
    /\ MembersApart(new)
    /\ \A j \in DOMAIN new : \E i \in DOMAIN ts : new[j] = ts[i]
    /\ \A i \in DOMAIN ts : IF \E j \in DOMAIN new : new[j] = ts[i]
                           THEN FiltersIn(H2, ts[i]) = FiltersIn(H, ts[i])
                           ELSE FiltersIn(H2, ts[i]) = {}

LEMMA FewerMembers ==
    ASSUME NEW H \in SUBSET Shared, NEW ts, MembersOf(ts, H), NEW H2 \in SUBSET H,
           NEW new, KeepsMembers(ts, new, H, H2)
    PROVE  MembersOf(new, H2)
<1> USE DEF KeepsMembers
<1>1. \A i \in DOMAIN ts : ts[i].filters # {} /\ ts[i].filters = FiltersIn(H, ts[i])
  BY DEF MembersOf
<1>2. ASSUME NEW j \in DOMAIN new
      PROVE  new[j].filters # {} /\ new[j].filters = FiltersIn(H2, new[j])
  <2>1. PICK i \in DOMAIN ts : new[j] = ts[i]
    OBVIOUS
  <2> QED BY <1>1, <2>1
<1>3. ASSUME NEW y \in H2 PROVE HasMember(new, y[1], y[2])
  <2>1. y = <<y[1], y[2], y[3]>> /\ y[3] \in Filters
    BY DEF Shared
  <2>2. HasMember(ts, y[1], y[2])
    BY DEF MembersOf
  <2>3. PICK i \in DOMAIN ts : ts[i].client = y[1] /\ ts[i].share = y[2]
    BY <2>2 DEF HasMember, IsMember
  <2>4. y[3] \in FiltersIn(H2, ts[i])
    BY <2>1, <2>3 DEF FiltersIn
  <2>5. PICK j \in DOMAIN new : new[j] = ts[i]
    BY <2>4
  <2> QED BY <2>3, <2>5 DEF HasMember, IsMember
<1> QED BY <1>2, <1>3 DEF MembersOf

WithoutMember(ts, c, share, new) ==
    /\ new \in Seq(Members) /\ MembersApart(new)
    /\ \A j \in DOMAIN new : \E i \in DOMAIN ts : new[j] = ts[i]
    /\ \A i \in DOMAIN ts : (\E j \in DOMAIN new : new[j] = ts[i])
                            <=> ~(ts[i].client = c /\ ts[i].share = share)

LEMMA RemovedMember ==
    ASSUME NEW H \in SUBSET Shared, NEW ts, MembersOf(ts, H), NEW c, NEW share,
           HasMember(ts, c, share), NEW new, new = RemoveAt(ts, PlaceOf(ts, c, share))
    PROVE  WithoutMember(ts, c, share, new)
<1> DEFINE k == PlaceOf(ts, c, share)
<1>1. ts \in Seq(Members) /\ MembersApart(ts)
  BY DEF MembersOf
<1>2. /\ k \in DOMAIN ts /\ ts[k].client = c /\ ts[k].share = share
      /\ \A j \in DOMAIN ts : ts[j].client = c /\ ts[j].share = share => j = k
  BY <1>1, PlaceIs
<1> HIDE DEF k
<1>3. new = RemoveAt(ts, k)
  BY DEF k
<1>4. /\ new \in Seq(Members)
      /\ DOMAIN new = 1..(Len(ts) - 1)
      /\ DOMAIN ts = 1..Len(ts) /\ Len(ts) \in Nat
      /\ \A i \in 1..(Len(ts) - 1) : new[i] = IF i < k THEN ts[i] ELSE ts[i + 1]
  BY <1>1, <1>2, <1>3, AfterRemoveAt
<1>5. ASSUME NEW j \in DOMAIN new
      PROVE  \E i \in DOMAIN ts : /\ new[j] = ts[i] /\ i # k
                                  /\ i = IF j < k THEN j ELSE j + 1
  <2>1. CASE j < k
    <3>1. j \in DOMAIN ts /\ j # k /\ new[j] = ts[j]
      BY <1>4, <2>1
    <3> QED BY <2>1, <3>1
  <2>2. CASE ~(j < k)
    <3>1. j + 1 \in DOMAIN ts /\ j + 1 # k /\ new[j] = ts[j + 1]
      BY <1>2, <1>4, <2>2
    <3> QED BY <2>2, <3>1
  <2> QED BY <2>1, <2>2
<1>6. MembersApart(new)
  <2> SUFFICES ASSUME NEW i \in DOMAIN new, NEW j \in DOMAIN new,
                      new[i].client = new[j].client, new[i].share = new[j].share
               PROVE  i = j
    BY DEF MembersApart
  <2>1. PICK a \in DOMAIN ts : new[i] = ts[a] /\ a = IF i < k THEN i ELSE i + 1
    BY <1>5
  <2>2. PICK b \in DOMAIN ts : new[j] = ts[b] /\ b = IF j < k THEN j ELSE j + 1
    BY <1>5
  <2>3. a = b
    BY <1>1, <2>1, <2>2 DEF MembersApart
  <2> QED BY <1>2, <1>4, <2>1, <2>2, <2>3
<1>7. ASSUME NEW i \in DOMAIN ts, i # k PROVE \E j \in DOMAIN new : new[j] = ts[i]
  <2>1. CASE i < k
    <3>1. i \in DOMAIN new /\ new[i] = ts[i]
      BY <1>2, <1>4, <2>1
    <3> QED BY <3>1
  <2>2. CASE ~(i < k)
    <3>1. i - 1 \in DOMAIN new /\ new[i - 1] = ts[i]
      BY <1>2, <1>4, <1>7, <2>2
    <3> QED BY <3>1
  <2> QED BY <2>1, <2>2
<1>8. ASSUME NEW j \in DOMAIN new PROVE ~(new[j].client = c /\ new[j].share = share)
  BY <1>2, <1>5
<1> QED BY <1>2, <1>4, <1>5, <1>6, <1>7, <1>8 DEF WithoutMember

LEMMA LeftMember ==
    ASSUME NEW H \in SUBSET Shared, NEW ts, MembersOf(ts, H),
           NEW c \in Clients, NEW share \in Shares, NEW f \in Filters
    PROVE  MembersOf(Left(ts, c, share, f), H \ {<<c, share, f>>})
<1> DEFINE H2 == H \ {<<c, share, f>>}
           new == Left(ts, c, share, f)
           i == PlaceOf(ts, c, share)
           rest == ts[i].filters \ {f}
<1>1. /\ ts \in Seq(Members) /\ MembersApart(ts)
      /\ \A k \in DOMAIN ts : /\ ts[k].filters # {} /\ ts[k].filters = FiltersIn(H, ts[k])
                              /\ ts[k] \in Members
      /\ \A y \in H : HasMember(ts, y[1], y[2])
  BY LenProperties DEF MembersOf
<1>2. \A e, g : e.client = g.client /\ e.share = g.share => FiltersIn(H2, e) = FiltersIn(H2, g)
  BY DEF FiltersIn
<1>3. \A e : FiltersIn(H2, e) = IF e.client = c /\ e.share = share
                                THEN FiltersIn(H, e) \ {f} ELSE FiltersIn(H, e)
  BY DEF FiltersIn
<1>4. H2 \in SUBSET H
  OBVIOUS
<1>5. CASE ~HasMember(ts, c, share)
  <2>1. <<c, share, f>> \notin H
    <3>1. <<c, share, f>>[1] = c /\ <<c, share, f>>[2] = share
      OBVIOUS
    <3> QED BY <1>1, <1>5, <3>1
  <2>2. H2 = H /\ new = ts
    BY <1>5, <2>1 DEF Left
  <2> QED BY <2>2
<1>6. CASE HasMember(ts, c, share)
  <2>1. /\ i \in DOMAIN ts /\ ts[i].client = c /\ ts[i].share = share
        /\ \A j \in DOMAIN ts : ts[j].client = c /\ ts[j].share = share => j = i
    BY <1>1, <1>6, PlaceIs
  <2>2. new = IF rest = {} THEN RemoveAt(ts, i) ELSE [ts EXCEPT ![i].filters = rest]
    BY <1>6 DEF Left
  <2>3. rest \in SUBSET Filters
    BY <1>1, <2>1 DEF Members
  <2>4. FiltersIn(H2, ts[i]) = rest
    BY <1>1, <1>3, <2>1
  <2>5. \A j \in DOMAIN ts : j # i => FiltersIn(H2, ts[j]) = FiltersIn(H, ts[j])
    BY <1>3, <2>1
  <2>6. CASE rest = {}
    <3>1. new = RemoveAt(ts, PlaceOf(ts, c, share))
      BY <2>2, <2>6
    <3> HIDE DEF rest, new
    <3>2. /\ new \in Seq(Members) /\ MembersApart(new)
          /\ \A j \in DOMAIN new : \E k \in DOMAIN ts : new[j] = ts[k]
          /\ \A k \in DOMAIN ts : (\E j \in DOMAIN new : new[j] = ts[k])
                                        <=> ~(ts[k].client = c /\ ts[k].share = share)
      <4>1. WithoutMember(ts, c, share, new)
        BY <1>6, <3>1, RemovedMember
      <4> QED BY <4>1 DEF WithoutMember
    <3> HIDE DEF i, H2
    <3>3. \A k \in DOMAIN ts : IF \E j \in DOMAIN new : new[j] = ts[k]
                                THEN FiltersIn(H2, ts[k]) = FiltersIn(H, ts[k])
                                ELSE FiltersIn(H2, ts[k]) = {}
      BY <2>1, <2>4, <2>5, <2>6, <3>2
    <3>4. MembersOf(new, H2)
      <4>1. KeepsMembers(ts, new, H, H2)
        BY <3>2, <3>3 DEF KeepsMembers
      <4> QED BY <1>4, <4>1, FewerMembers
    <3> QED BY <3>4 DEF H2, new
  <2>7. CASE rest # {}
    <3>1. new = [ts EXCEPT ![i].filters = rest]
      BY <2>2, <2>7
    <3> HIDE DEF rest, new, i, H2
    <3>2. Refilled(ts, i, rest, new)
      BY <1>1, <2>1, <2>3, <3>1, RefilledMember
    <3>3. /\ new \in Seq(Members) /\ DOMAIN new = DOMAIN ts
          /\ \A j \in DOMAIN ts : /\ new[j].client = ts[j].client
                                  /\ new[j].share = ts[j].share
                                  /\ new[j].filters = IF j = i THEN rest ELSE ts[j].filters
      BY <3>2 DEF Refilled
    <3>4. MembersApart(new)
      BY <1>1, <3>3 DEF MembersApart
    <3>5. ASSUME NEW j \in DOMAIN new
          PROVE  new[j].filters # {} /\ new[j].filters = FiltersIn(H2, new[j])
      <4>1. FiltersIn(H2, new[j]) = FiltersIn(H2, ts[j])
        BY <1>2, <3>3
      <4> QED BY <1>1, <2>4, <2>5, <2>7, <3>3, <4>1
    <3>6. \A k, s : HasMember(ts, k, s) => HasMember(new, k, s)
      BY <3>3 DEF HasMember, IsMember
    <3>7. MembersOf(new, H2)
      BY <1>1, <1>4, <3>3, <3>4, <3>5, <3>6 DEF MembersOf
    <3> QED BY <3>7 DEF H2, new
  <2> QED BY <2>6, <2>7
<1> QED BY <1>5, <1>6

LEMMA AllLeft ==
    ASSUME NEW H \in SUBSET Shared, NEW ts, MembersOf(ts, H), NEW c \in Clients
    PROVE  MembersOf(LeftAll(ts, c), {x \in H : x[1] # c})
<1> DEFINE P == {i \in DOMAIN ts : ts[i].client # c}
           n == Cardinality(P)
           H2 == {x \in H : x[1] # c}
           new == LeftAll(ts, c)
<1>1. ts \in Seq(Members) /\ MembersApart(ts) /\ P \in SUBSET DOMAIN ts
  BY DEF MembersOf
<1>2. new = Selected(ts, P)
  BY DEF LeftAll
<1>3. /\ IsFiniteSet(P) /\ P \in SUBSET Nat /\ n \in Nat
      /\ new \in [1..n -> Members]
      /\ \A k \in 1..n : Nth(P, k) \in P /\ new[k] = ts[Nth(P, k)]
  BY <1>1, <1>2, SelectedEntries
<1>4. \A k \in 1..n : Rank(P, Nth(P, k)) = k - 1
  BY <1>3, RanksAreAll
<1> HIDE DEF n, new
<1>5. new \in Seq(Members) /\ DOMAIN new = 1..n
  BY <1>3, FunctionsAreSequences
<1>6. MembersApart(new)
  <2> SUFFICES ASSUME NEW i \in 1..n, NEW j \in 1..n,
                      new[i].client = new[j].client, new[i].share = new[j].share
               PROVE  i = j
    BY <1>5 DEF MembersApart
  <2>1. Nth(P, i) = Nth(P, j)
    BY <1>1, <1>3 DEF MembersApart
  <2>2. i - 1 = j - 1
    BY <1>4, <2>1
  <2> QED BY <2>2
<1>7. \A j \in DOMAIN new : \E i \in P : new[j] = ts[i]
  BY <1>3, <1>5
<1>8. \A i \in P : \E j \in DOMAIN new : new[j] = ts[i]
  <2> TAKE i \in P
  <2>1. PICK k \in 1..n : Rank(P, i) = k - 1
    <3>1. Rank(P, i) \in Nat /\ Rank(P, i) < n
      BY <1>3, RankType DEF n
    <3>2. Rank(P, i) + 1 \in 1..n
      BY <1>3, <3>1
    <3>3. Rank(P, i) = (Rank(P, i) + 1) - 1
      BY <3>1
    <3> QED BY <3>2, <3>3
  <2>2. Nth(P, k) = i
    BY <1>3, <1>4, <2>1, RanksAreDistinct
  <2> QED BY <1>3, <1>5, <2>2
<1>9. ASSUME NEW i \in DOMAIN ts
      PROVE  IF \E j \in DOMAIN new : new[j] = ts[i]
             THEN FiltersIn(H2, ts[i]) = FiltersIn(H, ts[i])
             ELSE FiltersIn(H2, ts[i]) = {}
  <2>1. (\E j \in DOMAIN new : new[j] = ts[i]) <=> ts[i].client # c
    BY <1>7, <1>8
  <2>2. \A f : <<ts[i].client, ts[i].share, f>>[1] = ts[i].client
    OBVIOUS
  <2>3. FiltersIn(H2, ts[i]) = IF ts[i].client # c THEN FiltersIn(H, ts[i]) ELSE {}
    BY <2>2 DEF FiltersIn
  <2> QED BY <2>1, <2>3
<1>10. H2 \in SUBSET H
  OBVIOUS
<1> HIDE DEF H2
<1>11. MembersOf(new, H2)
  <2>1. KeepsMembers(ts, new, H, H2)
    BY <1>5, <1>6, <1>7, <1>9 DEF KeepsMembers
  <2> QED BY <1>10, <2>1, FewerMembers
<1> QED BY <1>11 DEF H2, new

LEMMA ServedMember ==
    ASSUME NEW H \in SUBSET Shared, NEW ts, MembersOf(ts, H), NEW i \in DOMAIN ts
    PROVE  MembersOf(Served(ts, i), H)
<1> DEFINE rest == RemoveAt(ts, i)
           new == Served(ts, i)
           n == Len(ts)
<1>1. /\ ts \in Seq(Members) /\ MembersApart(ts) /\ ts[i] \in Members
  BY LenProperties DEF MembersOf
<1>2. /\ rest \in Seq(Members)
      /\ DOMAIN rest = 1..(n - 1)
      /\ DOMAIN ts = 1..n /\ n \in Nat
      /\ \A j \in 1..(n - 1) : rest[j] = IF j < i THEN ts[j] ELSE ts[j + 1]
  BY <1>1, AfterRemoveAt
<1>3. new = Append(rest, ts[i])
  BY DEF Served
<1> HIDE DEF rest, n, new
<1>4. Len(rest) + 1 = n
  <2>1. n # 0
    BY <1>2
  <2>2. Len(rest) \in Nat /\ DOMAIN rest = 1..Len(rest)
    BY <1>2, LenProperties
  <2> QED BY <1>2, <2>1, <2>2
<1>5. /\ new \in Seq(Members) /\ DOMAIN new = 1..n
      /\ \A j \in 1..(n - 1) : new[j] = rest[j]
      /\ new[n] = ts[i]
  <2>1. /\ new \in Seq(Members) /\ DOMAIN new = DOMAIN rest \union {n}
        /\ \A j \in DOMAIN rest : new[j] = rest[j]
        /\ new[n] = ts[i]
    BY <1>1, <1>2, <1>3, <1>4, AfterAppend
  <2>2. 1..(n - 1) \union {n} = 1..n
    BY <1>2, <1>4, LenProperties
  <2> QED BY <1>2, <2>1, <2>2
<1> DEFINE from(j) == IF j = n THEN i ELSE IF j < i THEN j ELSE j + 1
<1>6. \A j \in DOMAIN new : from(j) \in DOMAIN ts /\ new[j] = ts[from(j)]
  BY <1>2, <1>5
<1>7. \A j, k \in DOMAIN new : from(j) = from(k) => j = k
  BY <1>2, <1>5
<1>8. MembersApart(new)
  <2> SUFFICES ASSUME NEW j \in DOMAIN new, NEW k \in DOMAIN new,
                      new[j].client = new[k].client, new[j].share = new[k].share
               PROVE  j = k
    BY DEF MembersApart
  <2> HIDE DEF from
  <2>1. from(j) = from(k)
    BY <1>1, <1>6 DEF MembersApart
  <2> QED BY <1>7, <2>1
<1>9. \A j \in DOMAIN new : \E k \in DOMAIN ts : new[j] = ts[k]
  BY <1>6
<1>10. \A k \in DOMAIN ts : \E j \in DOMAIN new : new[j] = ts[k]
  <2> TAKE k \in DOMAIN ts
  <2> DEFINE j == IF k = i THEN n ELSE IF k < i THEN k ELSE k - 1
  <2>1. j \in DOMAIN new /\ from(j) = k
    BY <1>2, <1>5
  <2> QED BY <1>6, <2>1
<1>11. KeepsMembers(ts, new, H, H)
  BY <1>5, <1>8, <1>9, <1>10 DEF KeepsMembers
<1> QED BY <1>11, FewerMembers DEF new

-----------------------------------------------------------------------------
(* What the clients were granted *)

Grants == [share : Shares \union {NotShared}, filter : Filters, nl : {o.nl : o \in SubOpts}]

PairsOf(gr) == {x \in Pairs : \E g \in gr[x[1]] : g.filter = x[2]}

SharedOf(gr) == {x \in Shared : \E g \in gr[x[1]] : g.share = x[2] /\ g.filter = x[3]}

(* A client has one subscription for each filter, as it does not use a filter
   under several share names. *)
GrantsApart(gr) ==
    /\ gr \in [Clients -> SUBSET Grants]
    /\ \A c \in Clients : \A g, h \in gr[c] : g.filter = h.filter => g = h
    /\ IsFiniteSet(PairsOf(gr))

(* What a node of the tree has for a client is what the client was granted. *)
SubsAgree(tree, gr) ==
    \A c \in Clients : \A g \in gr[c] :
        tree[g.filter].subs[c] = [share |-> g.share, nl |-> g.nl]

TopicsAgree(tree, hs, ts, gr) ==
    /\ GrantsApart(gr)
    /\ TreeOf(tree, PairsOf(gr))
    /\ SubsAgree(tree, gr)
    /\ hs = [c \in Clients |-> {g.filter : g \in gr[c]}]
    /\ MembersOf(ts, SharedOf(gr))

OneShareFor(held, share, filter) == \A g \in held : g.filter = filter => g.share = share

ListedEntries == [share : Shares \union {NotShared}, filter : Filters, opts : SubOpts]

MoreGranted(gr, c, e, gr2) ==
    /\ GrantsApart(gr2)
    /\ PairsOf(gr2) = PairsOf(gr) \union {<<c, e.filter>>}
    /\ SharedOf(gr2) = IF e.share = NotShared THEN SharedOf(gr)
                       ELSE SharedOf(gr) \union {<<c, e.share, e.filter>>}
    /\ \A k \in Clients : k # c => gr2[k] = gr[k]
    /\ gr2[c] = {g \in gr[c] : g.filter # e.filter}
                 \union {[share |-> e.share, filter |-> e.filter, nl |-> e.opts.nl]}
    /\ {g.filter : g \in gr2[c]} = {g.filter : g \in gr[c]} \union {e.filter}

LEMMA GrantedMore ==
    ASSUME NEW gr, GrantsApart(gr), NEW c \in Clients, NEW e \in ListedEntries,
           OneShareFor(gr[c], e.share, e.filter),
           NEW gr2, gr2 = [gr EXCEPT ![c] = GrantedEntry(gr[c], e)]
    PROVE  MoreGranted(gr, c, e, gr2)
<1> DEFINE new == [share |-> e.share, filter |-> e.filter, nl |-> e.opts.nl]
<1>1. /\ e.share \in Shares \union {NotShared} /\ e.filter \in Filters /\ e.opts \in SubOpts
  BY DEF ListedEntries
<1>2. /\ new \in Grants /\ new.share = e.share /\ new.filter = e.filter
  BY <1>1 DEF Grants
<1>3. gr \in [Clients -> SUBSET Grants] /\ gr[c] \in SUBSET Grants
  BY DEF GrantsApart
<1>4. GrantedEntry(gr[c], e) = {g \in gr[c] : g.filter # e.filter} \union {new}
  BY DEF GrantedEntry, OneShareFor
<1> HIDE DEF new
<1>5. /\ gr2 \in [Clients -> SUBSET Grants]
      /\ \A k \in Clients : k # c => gr2[k] = gr[k]
      /\ gr2[c] = {g \in gr[c] : g.filter # e.filter} \union {new}
  BY <1>2, <1>3, <1>4
<1>6. \A k \in Clients : \A g, h \in gr2[k] : g.filter = h.filter => g = h
  <2> TAKE k \in Clients
  <2>1. CASE k = c
    BY <1>2, <1>5, <2>1 DEF GrantsApart
  <2>2. CASE k # c
    BY <1>5, <2>2 DEF GrantsApart
  <2> QED BY <2>1, <2>2
<1>7. PairsOf(gr2) = PairsOf(gr) \union {<<c, e.filter>>}
  <2>1. ASSUME NEW x \in Pairs
        PROVE  (\E g \in gr2[x[1]] : g.filter = x[2])
                  <=> (\E g \in gr[x[1]] : g.filter = x[2]) \/ x = <<c, e.filter>>
    <3>1. x = <<x[1], x[2]>> /\ x[1] \in Clients
      BY FiltersArePaths
    <3>2. CASE x[1] = c
      BY <1>2, <1>5, <3>1, <3>2
    <3>3. CASE x[1] # c
      BY <1>5, <3>1, <3>3
    <3> QED BY <3>2, <3>3
  <2>2. <<c, e.filter>> \in Pairs
    BY <1>1 DEF Pairs
  <2> QED BY <2>1, <2>2 DEF PairsOf
<1>8. IsFiniteSet(PairsOf(gr2))
  <2>1. IsFiniteSet(PairsOf(gr))
    BY DEF GrantsApart
  <2>2. IsFiniteSet(PairsOf(gr) \union {<<c, e.filter>>})
    BY <2>1, FS_AddElement
  <2> QED BY <1>7, <2>2
<1>9. ASSUME NEW x \in Shared
      PROVE  (\E g \in gr2[x[1]] : g.share = x[2] /\ g.filter = x[3])
                <=> \/ \E g \in gr[x[1]] : g.share = x[2] /\ g.filter = x[3]
                    \/ x = <<c, e.share, e.filter>>
  <2>1. x = <<x[1], x[2], x[3]>> /\ x[1] \in Clients
    BY DEF Shared
  <2>2. CASE x[1] = c
    BY <1>2, <1>5, <2>1, <2>2 DEF OneShareFor
  <2>3. CASE x[1] # c
    BY <1>5, <2>1, <2>3
  <2> QED BY <2>2, <2>3
<1>10. SharedOf(gr2) = IF e.share = NotShared THEN SharedOf(gr)
                       ELSE SharedOf(gr) \union {<<c, e.share, e.filter>>}
  <2>1. e.share = NotShared => \A x \in Shared : x # <<c, e.share, e.filter>>
    BY TopicsAssumption DEF Shared
  <2>2. e.share # NotShared => <<c, e.share, e.filter>> \in Shared
    BY <1>1 DEF Shared
  <2> QED BY <1>9, <2>1, <2>2 DEF SharedOf
<1>11. {g.filter : g \in gr2[c]} = {g.filter : g \in gr[c]} \union {e.filter}
  BY <1>2, <1>5
<1>12. GrantsApart(gr2)
  BY <1>5, <1>6, <1>8 DEF GrantsApart
<1> QED BY <1>5, <1>7, <1>10, <1>11, <1>12 DEF new, MoreGranted
LessGranted(gr, c, share, f, gr2) ==
    /\ GrantsApart(gr2)
    /\ PairsOf(gr2) = PairsOf(gr) \ {<<c, f>>}
    /\ SharedOf(gr2) = IF share = NotShared THEN SharedOf(gr)
                       ELSE SharedOf(gr) \ {<<c, share, f>>}
    /\ \A k \in Clients : k # c => gr2[k] = gr[k]
    /\ gr2[c] = {g \in gr[c] : g.filter # f}

LEMMA GrantedLess ==
    ASSUME NEW gr, GrantsApart(gr), NEW c \in Clients, NEW share \in Shares \union {NotShared},
           NEW f \in Filters, OneShareFor(gr[c], share, f),
           NEW gr2, gr2 = [gr EXCEPT ![c] = {g \in @ : g.share # share \/ g.filter # f}]
    PROVE  LessGranted(gr, c, share, f, gr2)
<1>1. gr \in [Clients -> SUBSET Grants] /\ gr[c] \in SUBSET Grants
  BY DEF GrantsApart
<1>2. /\ gr2 \in [Clients -> SUBSET Grants]
      /\ \A k \in Clients : k # c => gr2[k] = gr[k]
      /\ gr2[c] = {g \in gr[c] : g.filter # f}
  BY <1>1 DEF OneShareFor
<1>3. \A k \in Clients : \A g, h \in gr2[k] : g.filter = h.filter => g = h
  <2> TAKE k \in Clients
  <2>1. CASE k = c
    BY <1>2, <2>1 DEF GrantsApart
  <2>2. CASE k # c
    BY <1>2, <2>2 DEF GrantsApart
  <2> QED BY <2>1, <2>2
<1>4. PairsOf(gr2) = PairsOf(gr) \ {<<c, f>>}
  <2>1. ASSUME NEW x \in Pairs
        PROVE  (\E g \in gr2[x[1]] : g.filter = x[2])
                  <=> (\E g \in gr[x[1]] : g.filter = x[2]) /\ x # <<c, f>>
    <3>1. x = <<x[1], x[2]>> /\ x[1] \in Clients
      BY FiltersArePaths
    <3>2. CASE x[1] = c
      BY <1>2, <3>1, <3>2
    <3>3. CASE x[1] # c
      BY <1>2, <3>1, <3>3
    <3> QED BY <3>2, <3>3
  <2> QED BY <2>1 DEF PairsOf
<1>5. IsFiniteSet(PairsOf(gr2))
  <2>1. IsFiniteSet(PairsOf(gr)) /\ PairsOf(gr2) \subseteq PairsOf(gr)
    BY <1>4 DEF GrantsApart
  <2> QED BY <2>1, FS_Subset
<1>6. ASSUME NEW x \in Shared
      PROVE  (\E g \in gr2[x[1]] : g.share = x[2] /\ g.filter = x[3])
                <=> /\ \E g \in gr[x[1]] : g.share = x[2] /\ g.filter = x[3]
                    /\ x # <<c, share, f>>
  <2>1. x = <<x[1], x[2], x[3]>> /\ x[1] \in Clients
    BY DEF Shared
  <2>2. CASE x[1] = c
    BY <1>2, <2>1, <2>2 DEF OneShareFor
  <2>3. CASE x[1] # c
    BY <1>2, <2>1, <2>3
  <2> QED BY <2>2, <2>3
<1>7. SharedOf(gr2) = IF share = NotShared THEN SharedOf(gr)
                      ELSE SharedOf(gr) \ {<<c, share, f>>}
  <2>1. share = NotShared => \A x \in Shared : x # <<c, share, f>>
    BY TopicsAssumption DEF Shared
  <2> QED BY <1>6, <2>1 DEF SharedOf
<1>8. GrantsApart(gr2)
  BY <1>2, <1>3, <1>5 DEF GrantsApart
<1> QED BY <1>2, <1>4, <1>7, <1>8 DEF LessGranted
NoneGranted(gr, c, gr2) ==
    /\ GrantsApart(gr2)
    /\ PairsOf(gr2) = {x \in PairsOf(gr) : x[1] # c}
    /\ SharedOf(gr2) = {x \in SharedOf(gr) : x[1] # c}
    /\ \A k \in Clients : k # c => gr2[k] = gr[k]
    /\ gr2[c] = {}

LEMMA GrantedNone ==
    ASSUME NEW gr, GrantsApart(gr), NEW c \in Clients,
           NEW gr2, gr2 = [gr EXCEPT ![c] = {}]
    PROVE  NoneGranted(gr, c, gr2)
<1>1. gr \in [Clients -> SUBSET Grants]
  BY DEF GrantsApart
<1>2. /\ gr2 \in [Clients -> SUBSET Grants]
      /\ \A k \in Clients : k # c => gr2[k] = gr[k]
      /\ gr2[c] = {}
  BY <1>1
<1>3. \A k \in Clients : \A g, h \in gr2[k] : g.filter = h.filter => g = h
  BY <1>2 DEF GrantsApart
<1>4. PairsOf(gr2) = {x \in PairsOf(gr) : x[1] # c}
  <2>1. \A x \in Pairs : x[1] \in Clients
    BY DEF Pairs
  <2> QED BY <1>2, <2>1 DEF PairsOf
<1>5. IsFiniteSet(PairsOf(gr2))
  <2>1. IsFiniteSet(PairsOf(gr)) /\ PairsOf(gr2) \subseteq PairsOf(gr)
    BY <1>4 DEF GrantsApart
  <2> QED BY <2>1, FS_Subset
<1>6. SharedOf(gr2) = {x \in SharedOf(gr) : x[1] # c}
  <2>1. \A x \in Shared : x[1] \in Clients
    BY DEF Shared
  <2> QED BY <1>2, <2>1 DEF SharedOf
<1>7. GrantsApart(gr2)
  BY <1>2, <1>3, <1>5 DEF GrantsApart
<1> QED BY <1>2, <1>4, <1>6, <1>7 DEF NoneGranted

(* The values at the pairs that were there before, and the pairs of a state. *)
LEMMA PairsGranted ==
    ASSUME NEW gr, GrantsApart(gr), NEW c \in Clients, NEW g \in gr[c]
    PROVE  /\ g \in Grants /\ <<c, g.filter>> \in PairsOf(gr)
           /\ <<c, g.filter>>[1] = c /\ <<c, g.filter>>[2] = g.filter
           /\ PairsOf(gr) \in SUBSET Pairs /\ IsFiniteSet(PairsOf(gr))
<1>1. g \in Grants /\ g.filter \in Filters
  BY DEF GrantsApart, Grants
<1>2. <<c, g.filter>> \in Pairs
  BY <1>1 DEF Pairs
<1> QED BY <1>1, <1>2 DEF PairsOf, GrantsApart

(* What subscribe() does for one entry. *)
EntryDone(tree, hs, ts, gr, c, e, tree2, hs2, ts2, gr2) ==
    /\ tree2 = SM!Inserted(tree, e.filter, c, Sub(e))
    /\ ts2 = IF e.share = NotShared THEN ts ELSE Joined(ts, c, e.share, e.filter)
    /\ hs2 = [hs EXCEPT ![c] = IF SM!IsNew(tree, e.filter, c)
                               THEN @ \union {e.filter} ELSE @]
    /\ gr2 = [gr EXCEPT ![c] = GrantedEntry(gr[c], e)]

LEMMA EntryAgrees ==
    ASSUME NEW tree, NEW hs, NEW ts, NEW gr, TopicsAgree(tree, hs, ts, gr),
           NEW c \in Clients, NEW e \in ListedEntries, OneShareFor(gr[c], e.share, e.filter),
           NEW tree2, NEW ts2, NEW hs2, NEW gr2,
           EntryDone(tree, hs, ts, gr, c, e, tree2, hs2, ts2, gr2)
    PROVE  TopicsAgree(tree2, hs2, ts2, gr2)
<1>. USE DEF EntryDone
<1> DEFINE f == e.filter
           x == <<c, f>>
           S == PairsOf(gr)
<1>1. /\ GrantsApart(gr) /\ TreeOf(tree, S) /\ SubsAgree(tree, gr)
      /\ hs = [k \in Clients |-> {g.filter : g \in gr[k]}]
      /\ MembersOf(ts, SharedOf(gr))
  BY DEF TopicsAgree
<1>2. /\ S \in SUBSET Pairs /\ IsFiniteSet(S)
  BY <1>1 DEF GrantsApart, PairsOf
<1>3. /\ e.share \in Shares \union {NotShared} /\ f \in Filters /\ e.opts \in SubOpts
  BY DEF ListedEntries
<1>4. Sub(e) \in SubValues /\ Sub(e) = [share |-> e.share, nl |-> e.opts.nl]
  BY <1>3 DEF Sub, SubValues
<1>5. /\ GrantsApart(gr2)
      /\ PairsOf(gr2) = S \union {x}
      /\ SharedOf(gr2) = IF e.share = NotShared THEN SharedOf(gr)
                         ELSE SharedOf(gr) \union {<<c, e.share, f>>}
      /\ \A k \in Clients : k # c => gr2[k] = gr[k]
      /\ gr2[c] = {g \in gr[c] : g.filter # f}
                        \union {[share |-> e.share, filter |-> f, nl |-> e.opts.nl]}
      /\ {g.filter : g \in gr2[c]} = {g.filter : g \in gr[c]} \union {f}
  <2>1. MoreGranted(gr, c, e, gr2)
    BY <1>1, GrantedMore
  <2> QED BY <2>1 DEF MoreGranted
<1>6. /\ TreeOf(tree2, S \union {x})
      /\ tree2[f].subs[c] = Sub(e)
      /\ \A y \in S : y # x => tree2[y[2]].subs[y[1]] = tree[y[2]].subs[y[1]]
  <2>1. OneMore(S, tree, c, f, Sub(e), tree2)
    BY <1>1, <1>2, <1>3, <1>4, InsertedTree
  <2> QED BY <2>1 DEF OneMore
<1>7. ASSUME NEW k \in Clients, NEW g \in gr2[k]
      PROVE  tree2[g.filter].subs[k] = [share |-> g.share, nl |-> g.nl]
  <2>1. CASE k = c /\ g.filter = f
    <3>1. g = [share |-> e.share, filter |-> f, nl |-> e.opts.nl]
      BY <1>5, <2>1
    <3> QED BY <1>4, <1>6, <2>1, <3>1
  <2>2. CASE ~(k = c /\ g.filter = f)
    <3>1. g \in gr[k]
      BY <1>5, <2>2
    <3>2. <<k, g.filter>> \in S /\ <<k, g.filter>>[1] = k /\ <<k, g.filter>>[2] = g.filter
      BY <1>1, <3>1, PairsGranted
    <3>3. <<k, g.filter>> # x
      BY <2>2
    <3>4. tree2[g.filter].subs[k] = tree[g.filter].subs[k]
      BY <1>6, <3>2, <3>3
    <3> QED BY <1>1, <3>1, <3>4 DEF SubsAgree
  <2> QED BY <2>1, <2>2
<1>8. hs2 = [k \in Clients |-> {g.filter : g \in gr2[k]}]
  <2>1. SM!IsNew(tree, f, c) <=> x \notin S
    BY <1>1, <1>2, <1>3, TreeNodesAre
  <2>2. x \in S <=> f \in {g.filter : g \in gr[c]}
    <3>1. x \in Pairs /\ x[1] = c /\ x[2] = f
      BY <1>3 DEF Pairs
    <3> QED BY <3>1 DEF PairsOf
  <2>3. hs2 = [k \in Clients |-> IF k = c THEN hs[c] \union {f} ELSE hs[k]]
    BY <1>1, <2>1, <2>2
  <2> QED BY <1>1, <1>5, <2>3
<1>9. MembersOf(ts2, SharedOf(gr2))
  <2>1. CASE e.share = NotShared
    BY <1>1, <1>5, <2>1
  <2>2. CASE e.share # NotShared
    <3>1. MembersOf(Joined(ts, c, e.share, f), SharedOf(gr) \union {<<c, e.share, f>>})
      <4>1. SharedOf(gr) \in SUBSET Shared
        BY DEF SharedOf
      <4> QED BY <1>1, <1>3, <2>2, <4>1, JoinedMember
    <3> QED BY <1>5, <2>2, <3>1
  <2> QED BY <2>1, <2>2
<1> QED BY <1>5, <1>6, <1>7, <1>8, <1>9 DEF TopicsAgree, SubsAgree

(* What unsubscribe() does. *)
NoEntryDone(tree, hs, ts, gr, c, share, f, tree2, hs2, ts2, gr2) ==
    /\ tree2 = IF SM!Stored(tree, f) THEN SM!Erased(tree, f, c) ELSE tree
    /\ ts2 = IF share = NotShared THEN ts ELSE Left(ts, c, share, f)
    /\ hs2 = IF SM!Stored(tree, f) THEN [hs EXCEPT ![c] = @ \ {f}] ELSE hs
    /\ gr2 = [gr EXCEPT ![c] = {g \in @ : g.share # share \/ g.filter # f}]

LEMMA NoEntryAgrees ==
    ASSUME NEW tree, NEW hs, NEW ts, NEW gr, TopicsAgree(tree, hs, ts, gr),
           NEW c \in Clients, NEW share \in Shares \union {NotShared}, NEW f \in Filters,
           OneShareFor(gr[c], share, f),
           NEW tree2, NEW ts2, NEW hs2, NEW gr2,
           NoEntryDone(tree, hs, ts, gr, c, share, f, tree2, hs2, ts2, gr2)
    PROVE  TopicsAgree(tree2, hs2, ts2, gr2)
<1>. USE DEF NoEntryDone
<1> DEFINE x == <<c, f>>
           S == PairsOf(gr)
<1>1. /\ GrantsApart(gr) /\ TreeOf(tree, S) /\ SubsAgree(tree, gr)
      /\ hs = [k \in Clients |-> {g.filter : g \in gr[k]}]
      /\ MembersOf(ts, SharedOf(gr))
  BY DEF TopicsAgree
<1>2. /\ S \in SUBSET Pairs /\ IsFiniteSet(S)
  BY <1>1 DEF GrantsApart, PairsOf
<1>3. LessGranted(gr, c, share, f, gr2)
  BY <1>1, GrantedLess
<1>4. /\ GrantsApart(gr2)
      /\ PairsOf(gr2) = S \ {x}
      /\ SharedOf(gr2) = IF share = NotShared THEN SharedOf(gr)
                         ELSE SharedOf(gr) \ {<<c, share, f>>}
      /\ \A k \in Clients : k # c => gr2[k] = gr[k]
      /\ gr2[c] = {g \in gr[c] : g.filter # f}
  BY <1>3 DEF LessGranted
<1>5. SM!Erased(tree, f, c) = tree2
  <2>1. SM!Stored(tree, f) \/ SM!IsNew(tree, f, c)
    BY DEF SM!IsNew
  <2> QED BY <2>1 DEF SM!Erased
<1>6. OneLess(S, tree, c, f, tree2)
  BY <1>1, <1>2, <1>5, ErasedTree
<1>7. /\ TreeOf(tree2, S \ {x})
      /\ \A y \in S : y # x => tree2[y[2]].subs[y[1]] = tree[y[2]].subs[y[1]]
  BY <1>6 DEF OneLess
<1>8. ASSUME NEW k \in Clients, NEW g \in gr2[k]
      PROVE  tree2[g.filter].subs[k] = [share |-> g.share, nl |-> g.nl]
  <2>1. g \in gr[k] /\ ~(k = c /\ g.filter = f)
    BY <1>4
  <2>2. <<k, g.filter>> \in S /\ <<k, g.filter>>[1] = k /\ <<k, g.filter>>[2] = g.filter
    BY <1>1, <2>1, PairsGranted
  <2>3. <<k, g.filter>> # x
    BY <2>1
  <2>4. tree2[g.filter].subs[k] = tree[g.filter].subs[k]
    BY <1>7, <2>2, <2>3
  <2> QED BY <1>1, <2>1, <2>4 DEF SubsAgree
<1>9. hs2 = [k \in Clients |-> {g.filter : g \in gr2[k]}]
  <2>1. {g.filter : g \in gr2[c]} = {g.filter : g \in gr[c]} \ {f}
    BY <1>4
  <2>2. ~SM!Stored(tree, f) => f \notin {g.filter : g \in gr[c]}
    <3>1. SM!IsNew(tree, f, c) <=> x \notin S
      BY <1>1, <1>2, TreeNodesAre
    <3>2. x \in Pairs /\ x[1] = c /\ x[2] = f
      BY DEF Pairs
    <3> QED BY <3>1, <3>2 DEF PairsOf, SM!IsNew
  <2>3. hs2 = [k \in Clients |-> IF k = c THEN hs[c] \ {f} ELSE hs[k]]
    BY <1>1, <2>2
  <2> QED BY <1>1, <1>4, <2>1, <2>3
<1>10. MembersOf(ts2, SharedOf(gr2))
  <2>1. CASE share = NotShared
    BY <1>1, <1>4, <2>1
  <2>2. CASE share # NotShared
    <3>1. MembersOf(Left(ts, c, share, f), SharedOf(gr) \ {<<c, share, f>>})
      <4>1. SharedOf(gr) \in SUBSET Shared
        BY DEF SharedOf
      <4> QED BY <1>1, <2>2, <4>1, LeftMember
    <3> QED BY <1>4, <2>2, <3>1
  <2> QED BY <2>1, <2>2
<1> QED BY <1>4, <1>7, <1>8, <1>9, <1>10 DEF TopicsAgree, SubsAgree

(* The tree has what is left of S, and the rest is as it was in tree. *)
LeftOf(t, S, T, tree) ==
    /\ T \in SUBSET S
    /\ TreeOf(t, T)
    /\ \A y \in T : t[y[2]].subs[y[1]] = tree[y[2]].subs[y[1]]

LEMMA ErasedLeft ==
    ASSUME NEW S \in SUBSET Pairs, IsFiniteSet(S), NEW tree, NEW t, NEW T, LeftOf(t, S, T, tree),
           NEW c \in Clients, NEW f \in Filters
    PROVE  /\ LeftOf(SM!Erased(t, f, c), S, T \ {<<c, f>>}, tree)
           /\ SM!Erased(t, f, c) \in Trees
<1> DEFINE t2 == SM!Erased(t, f, c)
           T2 == T \ {<<c, f>>}
<1>1. T \in SUBSET Pairs /\ IsFiniteSet(T) /\ TreeOf(t, T)
  BY FS_Subset DEF LeftOf
<1> HIDE DEF t2
<1>2. OneLess(T, t, c, f, t2)
  BY <1>1, ErasedTree DEF t2
<1>3. /\ TreeOf(t2, T2)
      /\ \A x \in T : x # <<c, f>> => t2[x[2]].subs[x[1]] = t[x[2]].subs[x[1]]
  BY <1>2 DEF OneLess
<1>4. \A y \in T2 : t2[y[2]].subs[y[1]] = tree[y[2]].subs[y[1]]
  BY <1>3 DEF LeftOf
<1>5. T2 \in SUBSET S
  BY DEF LeftOf
<1> HIDE DEF T2
<1>6. LeftOf(t2, S, T2, tree) /\ t2 \in Trees
  BY <1>3, <1>4, <1>5 DEF LeftOf, TreeOf
<1> QED BY <1>6 DEF T2, t2

(* The first k of the filters of c are gone. *)
ErasedPairs(c, filters, k) == {<<c, filters[j]>> : j \in 1..k}

LEMMA ErasingSteps ==
    ASSUME NEW S \in SUBSET Pairs, IsFiniteSet(S), TreeOf(subs, S),
           NEW c \in Clients, NEW filters \in Seq(Filters)
    PROVE  LeftOf(Erasing(c, filters)[Len(filters)], S,
                  S \ ErasedPairs(c, filters, Len(filters)), subs)
<1> DEFINE n == Len(filters)
           V == {t \in Trees : \E T \in SUBSET S : LeftOf(t, S, T, subs)}
           F == [k \in 1..n |-> [t \in V |-> SM!Erased(t, filters[k], c)]]
           Is(g) == g = [k \in 0..n |-> IF k = 0 THEN subs ELSE SM!Erased(g[k - 1], filters[k], c)]
<1>1. n \in Nat /\ \A k \in 1..n : filters[k] \in Filters
  BY LenProperties
<1>2. subs \in V /\ LeftOf(subs, S, S, subs)
  <2>1. LeftOf(subs, S, S, subs)
    BY DEF LeftOf
  <2> QED BY <2>1 DEF TreeOf
<1>3. \A t \in V, f \in Filters : SM!Erased(t, f, c) \in V
  <2> TAKE t \in V, f \in Filters
  <2>1. PICK T \in SUBSET S : LeftOf(t, S, T, subs)
    OBVIOUS
  <2>2. LeftOf(SM!Erased(t, f, c), S, T \ {<<c, f>>}, subs) /\ SM!Erased(t, f, c) \in Trees
    BY <2>1, ErasedLeft
  <2>3. T \ {<<c, f>>} \in SUBSET S
    OBVIOUS
  <2> QED BY <2>2, <2>3
<1> HIDE DEF V
<1>4. F \in [1..n -> [V -> V]]
  BY <1>1, <1>3
<1> HIDE DEF n
<1>5. PICK g \in [0..n -> V] : g[0] = subs /\ \A k \in 1..n : g[k] = F[k][g[k - 1]]
  <2> HIDE DEF F, Is
  <2>1. PICK g : IsRecursive(g, n, V, subs, F)
    BY <1>1, <1>2, <1>4, Recursion
  <2> QED BY <2>1 DEF IsRecursive
<1>6. Is(g)
  <2>1. \A k \in 0..n : k # 0 => k \in 1..n /\ g[k - 1] \in V
    BY <1>1
  <2>2. \A k \in 0..n : k # 0 => F[k][g[k - 1]] = SM!Erased(g[k - 1], filters[k], c)
    BY <2>1
  <2>3. \A k \in 0..n : g[k] = IF k = 0 THEN subs ELSE SM!Erased(g[k - 1], filters[k], c)
    <3> HIDE DEF F
    <3> QED BY <1>1, <1>5, <2>1, <2>2
  <2> QED BY <2>3
<1>7. Erasing(c, filters) = CHOOSE fn : Is(fn)
  BY DEF Erasing, n
<1> HIDE DEF Is
<1>8. Is(Erasing(c, filters))
  BY <1>6, <1>7
<1> DEFINE R == Erasing(c, filters)
<1>9. R = [k \in 0..n |-> IF k = 0 THEN subs ELSE SM!Erased(R[k - 1], filters[k], c)]
  BY <1>8 DEF Is
<1> HIDE DEF R
<1> DEFINE rest(k) == S \ ErasedPairs(c, filters, k)
           K == {k \in 0..n : LeftOf(R[k], S, rest(k), subs)}
<1>10. 0 \in K
  <2>1. R[0] = subs
    BY <1>1, <1>9
  <2>2. rest(0) = S
    BY DEF ErasedPairs
  <2> QED BY <1>1, <1>2, <2>1, <2>2
<1>11. ASSUME NEW k \in 0..(n - 1), k \in K PROVE k + 1 \in K
  <2>1. k + 1 \in 1..n /\ (k + 1) - 1 = k
    BY <1>1
  <2>2. R[k + 1] = SM!Erased(R[k], filters[k + 1], c)
    BY <1>1, <1>9, <2>1
  <2>3. rest(k + 1) = rest(k) \ {<<c, filters[k + 1]>>}
    <3>1. 1..(k + 1) = (1..k) \union {k + 1}
      BY <2>1
    <3> QED BY <3>1 DEF ErasedPairs
  <2> HIDE DEF rest
  <2>4. LeftOf(R[k], S, rest(k), subs)
    BY <1>11
  <2>5. LeftOf(SM!Erased(R[k], filters[k + 1], c), S, rest(k) \ {<<c, filters[k + 1]>>}, subs)
    BY <1>1, <2>1, <2>4, ErasedLeft
  <2>6. LeftOf(R[k + 1], S, rest(k + 1), subs)
    BY <2>2, <2>3, <2>5
  <2>7. k + 1 \in 0..n
    BY <1>1
  <2> QED BY <2>6, <2>7
<1> HIDE DEF K
<1>12. 0..n \subseteq K
  BY <1>1, <1>10, <1>11, Induction
<1>13. n \in K
  BY <1>1, <1>12
<1> QED BY <1>13 DEF K, R, n

(* clean() *)
LEMMA NoneAgree ==
    ASSUME TopicsAgree(subs, handles, targets, granted), NEW c \in Clients, Clean(c)
    PROVE  TopicsAgree(subs', handles', targets', granted')
<1> DEFINE S == PairsOf(granted)
           filters == SetToSeq(handles[c])
           gone == ErasedPairs(c, filters, Len(filters))
<1>1. /\ GrantsApart(granted) /\ TreeOf(subs, S) /\ SubsAgree(subs, granted)
      /\ handles = [k \in Clients |-> {g.filter : g \in granted[k]}]
      /\ MembersOf(targets, SharedOf(granted))
  BY DEF TopicsAgree
<1>2. /\ S \in SUBSET Pairs /\ IsFiniteSet(S)
  BY <1>1 DEF GrantsApart, PairsOf
<1>3. NoneGranted(granted, c, granted')
  BY <1>1, GrantedNone DEF Clean
<1>4. /\ GrantsApart(granted')
      /\ PairsOf(granted') = {x \in S : x[1] # c}
      /\ SharedOf(granted') = {x \in SharedOf(granted) : x[1] # c}
      /\ \A k \in Clients : k # c => granted'[k] = granted[k]
      /\ granted'[c] = {}
  BY <1>3 DEF NoneGranted
<1>5. /\ handles[c] \in SUBSET Filters
      /\ \A x \in S : x[1] = c <=> x \in {<<c, f>> : f \in handles[c]}
      /\ \A f \in handles[c] : <<c, f>> \in S
  <2>1. \A g \in granted[c] : g.filter \in Filters
    BY <1>1 DEF GrantsApart, Grants
  <2>2. handles[c] = {g.filter : g \in granted[c]}
    BY <1>1
  <2>3. \A x \in S : x = <<x[1], x[2]>> /\ (x[1] = c => x[2] \in handles[c])
    BY <1>2, <2>2, FiltersArePaths DEF PairsOf
  <2>4. \A f \in handles[c] : <<c, f>> \in Pairs /\ <<c, f>>[1] = c /\ <<c, f>>[2] = f
    BY <2>1, <2>2 DEF Pairs
  <2>5. \A f \in handles[c] : <<c, f>> \in S
    BY <2>2, <2>4 DEF PairsOf
  <2> QED BY <2>1, <2>2, <2>3, <2>4, <2>5
<1>6. IsFiniteSet(handles[c])
  <2> DEFINE P == {<<c, f>> : f \in handles[c]}
             p == [f \in handles[c] |-> <<c, f>>]
  <2>1. P \subseteq S
    BY <1>5
  <2>2. IsFiniteSet(P)
    BY <1>2, <2>1, FS_Subset
  <2>3. p \in Injection(handles[c], P)
    BY DEF Injection, IsInjective
  <2> QED BY <2>2, <2>3, FS_Injection
<1>7. /\ filters \in Seq(handles[c]) /\ Len(filters) \in Nat
      /\ \A f \in handles[c] : \E i \in 1..Len(filters) : filters[i] = f
  BY <1>6, SetListed
<1> HIDE DEF filters
<1>8. \A i \in 1..Len(filters) : filters[i] \in handles[c]
  BY <1>7, LenProperties
<1>9. filters \in Seq(Filters)
  BY <1>5, <1>7, <1>8, IsASeq
<1>10. S \ gone = PairsOf(granted')
  <2>1. gone = {<<c, f>> : f \in handles[c]}
    BY <1>7, <1>8 DEF ErasedPairs
  <2> QED BY <1>4, <1>5, <2>1
<1>11. LeftOf(subs', S, PairsOf(granted'), subs)
  <2>1. LeftOf(Erasing(c, filters)[Len(filters)], S, S \ gone, subs)
    BY <1>1, <1>2, <1>9, ErasingSteps
  <2>2. subs' = Erasing(c, filters)[Len(filters)]
    BY DEF Clean, filters
  <2> QED BY <1>10, <2>1, <2>2
<1>12. SubsAgree(subs', granted')
  <2> SUFFICES ASSUME NEW k \in Clients, NEW g \in granted'[k]
               PROVE  subs'[g.filter].subs[k] = [share |-> g.share, nl |-> g.nl]
    BY DEF SubsAgree
  <2>1. g \in granted[k]
    BY <1>4
  <2>2. /\ <<k, g.filter>> \in PairsOf(granted')
        /\ <<k, g.filter>>[1] = k /\ <<k, g.filter>>[2] = g.filter
    BY <1>4, PairsGranted
  <2>3. subs'[g.filter].subs[k] = subs[g.filter].subs[k]
    BY <1>11, <2>2 DEF LeftOf
  <2> QED BY <1>1, <2>1, <2>3 DEF SubsAgree
<1>13. handles' = [k \in Clients |-> {g.filter : g \in granted'[k]}]
  <2>1. handles' = [k \in Clients |-> IF k = c THEN {} ELSE handles[k]]
    BY <1>1 DEF Clean
  <2> QED BY <1>1, <1>4, <2>1
<1>14. MembersOf(targets', SharedOf(granted'))
  <2>1. SharedOf(granted) \in SUBSET Shared
    BY DEF SharedOf
  <2>2. MembersOf(LeftAll(targets, c), {x \in SharedOf(granted) : x[1] # c})
    BY <1>1, <2>1, AllLeft
  <2> QED BY <1>4, <2>2 DEF Clean
<1> QED BY <1>4, <1>11, <1>12, <1>13, <1>14 DEF TopicsAgree, LeftOf

(* The retained messages the entries may ask for. *)
RetainedFor(c, entries) ==
    UNION {{Message(c, t, entries[i].share, entries[i].filter, TRUE) :
                t \in RM!RetainedFound(retains, entries[i].filter)} : i \in DOMAIN entries}

HandlesWith(c, s) == [handles EXCEPT ![c] = s.handles]

GrantedWith(c, s) == [granted EXCEPT ![c] = s.granted]

(* While the entries are gone through, for one client. *)
MidSubscribes(c, entries) ==
    {s \in [tree : Trees, targets : Seq(Members), handles : SUBSET Filters,
            retain : SUBSET RetainedFor(c, entries), granted : SUBSET Grants] :
        /\ TopicsAgree(s.tree, HandlesWith(c, s), s.targets, GrantedWith(c, s))
        /\ \A i \in DOMAIN entries : OneShareFor(s.granted, entries[i].share, entries[i].filter)}

LEMMA EntrySubscribed ==
    ASSUME TopicsAgree(subs, handles, targets, granted),
           NEW c \in Clients, NEW entries \in Seq(ListedEntries), OneShare(c, entries),
           NEW s \in MidSubscribes(c, entries), NEW k \in DOMAIN entries
    PROVE  SubscribedEntry(s, c, entries[k]) \in MidSubscribes(c, entries)
<1> DEFINE e == entries[k]
           hs == HandlesWith(c, s)
           gr == GrantedWith(c, s)
           r == SubscribedEntry(s, c, e)
<1>1. /\ e \in ListedEntries
      /\ e.share \in Shares \union {NotShared} /\ e.filter \in Filters /\ e.opts \in SubOpts
  <2>1. e \in ListedEntries
    BY LenProperties
  <2> HIDE DEF e
  <2> QED BY <2>1 DEF ListedEntries
<1>2. /\ s.tree \in Trees /\ s.targets \in Seq(Members) /\ s.handles \in SUBSET Filters
      /\ s.retain \in SUBSET RetainedFor(c, entries) /\ s.granted \in SUBSET Grants
      /\ TopicsAgree(s.tree, hs, s.targets, gr)
      /\ \A i \in DOMAIN entries : OneShareFor(s.granted, entries[i].share, entries[i].filter)
  BY DEF MidSubscribes
<1>3. /\ handles = [j \in Clients |-> handles[j]] /\ granted = [j \in Clients |-> granted[j]]
  BY DEF TopicsAgree, GrantsApart
<1>4. hs[c] = s.handles /\ gr[c] = s.granted
  BY <1>3 DEF HandlesWith, GrantedWith
<1> HIDE DEF e
<1>5. /\ r.tree = SM!Inserted(s.tree, e.filter, c, Sub(e))
      /\ r.targets = IF e.share = NotShared THEN s.targets
                     ELSE Joined(s.targets, c, e.share, e.filter)
      /\ r.handles = IF SM!IsNew(s.tree, e.filter, c) THEN s.handles \union {e.filter}
                     ELSE s.handles
      /\ r.granted = GrantedEntry(s.granted, e)
      /\ r = [tree |-> r.tree, targets |-> r.targets, handles |-> r.handles,
              retain |-> r.retain, granted |-> r.granted]
  BY DEF SubscribedEntry
<1>6. r.retain \in SUBSET RetainedFor(c, entries)
  <2>1. r.retain = IF WantsRetained(s.tree, c, e)
                   THEN s.retain \union
                        {Message(c, t, e.share, e.filter, TRUE) :
                            t \in RM!RetainedFound(retains, e.filter)}
                   ELSE s.retain
    BY DEF SubscribedEntry
  <2>2. {Message(c, t, e.share, e.filter, TRUE) : t \in RM!RetainedFound(retains, e.filter)}
            \subseteq RetainedFor(c, entries)
    BY DEF RetainedFor, e
  <2> QED BY <1>2, <2>1, <2>2
<1> HIDE DEF r
<1>7. HandlesWith(c, r) = [hs EXCEPT ![c] = IF SM!IsNew(s.tree, e.filter, c)
                                           THEN @ \union {e.filter} ELSE @]
  BY <1>3, <1>4, <1>5 DEF HandlesWith
<1>8. GrantedWith(c, r) = [gr EXCEPT ![c] = GrantedEntry(gr[c], e)]
  BY <1>3, <1>4, <1>5 DEF GrantedWith
<1> HIDE DEF hs, gr
<1>9. OneShareFor(gr[c], e.share, e.filter)
  BY <1>2, <1>4 DEF e
<1>10. TopicsAgree(r.tree, HandlesWith(c, r), r.targets, GrantedWith(c, r))
  <2>1. EntryDone(s.tree, hs, s.targets, gr, c, e,
                  r.tree, HandlesWith(c, r), r.targets, GrantedWith(c, r))
    BY <1>5, <1>7, <1>8 DEF EntryDone
  <2> QED BY <1>1, <1>2, <1>9, <2>1, EntryAgrees
<1>11. /\ r.tree \in Trees /\ r.targets \in Seq(Members)
       /\ GrantedWith(c, r) \in [Clients -> SUBSET Grants]
  BY <1>10 DEF TopicsAgree, TreeOf, MembersOf, GrantsApart
<1>12. r.granted \in SUBSET Grants
  BY <1>3, <1>11 DEF GrantedWith
<1>13. r.handles \in SUBSET Filters
  BY <1>1, <1>2, <1>5
<1>14. ASSUME NEW i \in DOMAIN entries
       PROVE  OneShareFor(r.granted, entries[i].share, entries[i].filter)
  <2>1. \A g \in r.granted : g \in s.granted \/ (g.share = e.share /\ g.filter = e.filter)
    BY <1>5 DEF GrantedEntry
  <2>2. e.filter = entries[i].filter => e.share = entries[i].share
    BY DEF OneShare, e
  <2> QED BY <1>2, <2>1, <2>2 DEF OneShareFor
<1> QED BY <1>5, <1>6, <1>10, <1>11, <1>12, <1>13, <1>14 DEF MidSubscribes, r, e

LEMMA SubscribingSteps ==
    ASSUME TopicsAgree(subs, handles, targets, granted),
           NEW c \in Clients, NEW entries \in Seq(ListedEntries), OneShare(c, entries)
    PROVE  Subscribing(c, entries)[Len(entries)] \in MidSubscribes(c, entries)
<1> DEFINE n == Len(entries)
           V == MidSubscribes(c, entries)
           b == [tree |-> subs, targets |-> targets, handles |-> handles[c], retain |-> {},
                 granted |-> granted[c]]
           Step(s, k) == IF <<c, entries[k].filter>> \in MaySubscribe
                         THEN SubscribedEntry(s, c, entries[k]) ELSE s
           F == [k \in 1..n |-> [s \in V |-> Step(s, k)]]
           Is(g) == g = [k \in 0..n |-> IF k = 0 THEN b ELSE Step(g[k - 1], k)]
<1>1. n \in Nat /\ DOMAIN entries = 1..n
  BY LenProperties
<1>2. b \in V
  <2>1. /\ subs \in Trees /\ targets \in Seq(Members)
        /\ granted \in [Clients -> SUBSET Grants]
        /\ handles = [k \in Clients |-> {g.filter : g \in granted[k]}]
    BY DEF TopicsAgree, TreeOf, MembersOf, GrantsApart
  <2>2. handles[c] \in SUBSET Filters
    BY <2>1 DEF Grants
  <2>3. HandlesWith(c, b) = handles /\ GrantedWith(c, b) = granted
    BY <2>1 DEF HandlesWith, GrantedWith
  <2>4. \A i \in DOMAIN entries : OneShareFor(b.granted, entries[i].share, entries[i].filter)
    BY DEF OneShare, OneShareFor
  <2>5. /\ b.tree = subs /\ b.targets = targets
        /\ b \in [tree : Trees, targets : Seq(Members), handles : SUBSET Filters,
                  retain : SUBSET RetainedFor(c, entries), granted : SUBSET Grants]
    BY <2>1, <2>2
  <2> HIDE DEF b
  <2> QED BY <2>3, <2>4, <2>5 DEF MidSubscribes
<1>3. \A s \in V, k \in 1..n : Step(s, k) \in V
  BY <1>1, EntrySubscribed
<1> HIDE DEF V, Step, b
<1>4. F \in [1..n -> [V -> V]]
  BY <1>1, <1>3
<1> HIDE DEF n
<1>5. PICK g \in [0..n -> V] : g[0] = b /\ \A k \in 1..n : g[k] = F[k][g[k - 1]]
  <2> HIDE DEF F, Is
  <2>1. PICK g : IsRecursive(g, n, V, b, F)
    BY <1>1, <1>2, <1>4, Recursion
  <2> QED BY <2>1 DEF IsRecursive
<1>6. Is(g)
  <2>1. \A k \in 0..n : k # 0 => k \in 1..n /\ g[k - 1] \in V
    BY <1>1
  <2>2. \A k \in 0..n : k # 0 => F[k][g[k - 1]] = Step(g[k - 1], k)
    BY <2>1
  <2>3. \A k \in 0..n : g[k] = IF k = 0 THEN b ELSE Step(g[k - 1], k)
    <3> HIDE DEF F
    <3> QED BY <1>1, <1>5, <2>1, <2>2
  <2> QED BY <2>3
<1>7. Subscribing(c, entries) = CHOOSE fn : Is(fn)
  BY DEF Subscribing, n, Step, b
<1> HIDE DEF Is
<1>8. Is(Subscribing(c, entries))
  BY <1>6, <1>7
<1> DEFINE R == Subscribing(c, entries)
<1>9. R = [k \in 0..n |-> IF k = 0 THEN b ELSE Step(R[k - 1], k)]
  BY <1>8 DEF Is
<1> HIDE DEF R
<1> DEFINE K == {k \in 0..n : R[k] \in V}
<1>10. 0 \in K
  BY <1>1, <1>2, <1>9
<1>11. ASSUME NEW k \in 0..(n - 1), k \in K PROVE k + 1 \in K
  <2>1. k + 1 \in 1..n /\ k + 1 \in 0..n /\ (k + 1) - 1 = k
    BY <1>1
  <2>2. R[k + 1] = Step(R[k], k + 1)
    BY <1>1, <1>9, <2>1
  <2>3. R[k + 1] \in V
    BY <1>3, <1>11, <2>1, <2>2
  <2> QED BY <2>1, <2>3
<1> HIDE DEF K
<1>12. 0..n \subseteq K
  BY <1>1, <1>10, <1>11, Induction
<1>13. n \in K
  BY <1>1, <1>12
<1> QED BY <1>13 DEF K, R, n, V

-----------------------------------------------------------------------------
(* Whose turn it is *)

LEMMA TurnIs ==
    ASSUME NEW H \in SUBSET Shared, NEW ts, MembersOf(ts, H), NEW share \in Shares,
           NEW f \in Filters, NEW i, i = TurnOf(ts, share, f)
    PROVE  \/ i = 0 /\ \A c \in Clients : <<c, share, f>> \notin H
           \/ /\ i \in DOMAIN ts /\ ts[i].client \in Clients
              /\ <<ts[i].client, share, f>> \in H
<1> DEFINE I == {j \in 1..Len(ts) : ts[j].share = share /\ f \in ts[j].filters}
<1>1. /\ ts \in Seq(Members) /\ Len(ts) \in Nat /\ DOMAIN ts = 1..Len(ts)
      /\ \A j \in DOMAIN ts : ts[j] \in Members
  BY LenProperties DEF MembersOf
<1>2. i = IF I # {} THEN Min(I) ELSE 0
  BY DEF TurnOf, SelectInSeq
<1>3. CASE I = {}
  <2> SUFFICES ASSUME NEW c \in Clients, <<c, share, f>> \in H PROVE FALSE
    BY <1>2, <1>3
  <2>1. PICK j \in DOMAIN ts : ts[j].client = c /\ ts[j].share = share
    <3>1. HasMember(ts, <<c, share, f>>[1], <<c, share, f>>[2])
      BY DEF MembersOf
    <3> QED BY <3>1 DEF HasMember, IsMember
  <2>2. f \in ts[j].filters
    BY <2>1 DEF MembersOf, FiltersIn
  <2> QED BY <1>1, <1>3, <2>1, <2>2
<1>4. CASE I # {}
  <2>1. I \subseteq Nat
    BY <1>1
  <2>2. \E j \in I : \A k \in I : j <= k
    BY <1>4, <2>1, LeastNumber
  <2>3. i \in I
    BY <1>2, <1>4, <2>2 DEF Min
  <2>4. i \in DOMAIN ts /\ ts[i].share = share /\ f \in ts[i].filters /\ ts[i].client \in Clients
    BY <1>1, <2>3 DEF Members
  <2> QED BY <2>4 DEF MembersOf, FiltersIn
<1> QED BY <1>3, <1>4

GroupValues == [share : Shares, filter : Filters]

SharedMessages(topic) ==
    {Message(x[1], topic, x[2], x[3], FALSE) : x \in Shared}

(* What get_target() has chosen for the first k of the groups: a member for
   each that has one, and one only. *)
OfGroup(m, g) == m.share = g.share /\ m.filter = g.filter

HandedToMember(m, H, topic) ==
    /\ m = Message(m.to, topic, m.share, m.filter, FALSE)
    /\ <<m.to, m.share, m.filter>> \in H

OneEach(messages) == \A m, w \in messages : OfGroup(m, w) => m = w

HasMembers(H, g) == \E c \in Clients : <<c, g.share, g.filter>> \in H

ServedTo(s, H, topic, groups, k) ==
    /\ MembersOf(s.targets, H)
    /\ \A m \in s.out : HandedToMember(m, H, topic) /\ \E j \in 1..k : OfGroup(m, groups[j])
    /\ OneEach(s.out)
    /\ \A j \in 1..k : HasMembers(H, groups[j]) => \E m \in s.out : OfGroup(m, groups[j])

ServeStates(H, topic) ==
    {s \in [targets : Seq(Members), out : SUBSET SharedMessages(topic)] : MembersOf(s.targets, H)}

LEMMA OneServed ==
    ASSUME NEW H \in SUBSET Shared, NEW topic, NEW g \in GroupValues,
           NEW s \in ServeStates(H, topic)
    PROVE  Serve(s, topic, g) \in ServeStates(H, topic)
<1> DEFINE i == TurnOf(s.targets, g.share, g.filter)
           new == Served(s.targets, i)
           m == Message(s.targets[i].client, topic, g.share, g.filter, FALSE)
<1>1. /\ MembersOf(s.targets, H) /\ s.out \in SUBSET SharedMessages(topic)
      /\ g.share \in Shares /\ g.filter \in Filters
  BY DEF ServeStates, GroupValues
<1>2. Serve(s, topic, g) = IF i = 0 THEN s ELSE [targets |-> new, out |-> s.out \union {m}]
  BY DEF Serve
<1>3. CASE i = 0
  BY <1>2, <1>3
<1>4. CASE i # 0
  <2>1. i \in DOMAIN s.targets /\ <<s.targets[i].client, g.share, g.filter>> \in H
    BY <1>1, <1>4, TurnIs
  <2> HIDE DEF i
  <2>2. MembersOf(new, H)
    BY <1>1, <2>1, ServedMember
  <2>3. m \in SharedMessages(topic)
    <3> DEFINE x == <<s.targets[i].client, g.share, g.filter>>
    <3>1. x \in Shared /\ m = Message(x[1], topic, x[2], x[3], FALSE)
      BY <2>1
    <3> HIDE DEF x, m
    <3> QED BY <3>1 DEF SharedMessages
  <2> HIDE DEF new, m
  <2>4. Serve(s, topic, g) = [targets |-> new, out |-> s.out \union {m}]
    BY <1>2, <1>4
  <2>5. new \in Seq(Members)
    BY <2>2 DEF MembersOf
  <2> QED BY <1>1, <2>2, <2>3, <2>4, <2>5 DEF ServeStates
<1> QED BY <1>3, <1>4

LEMMA OneServedMore ==
    ASSUME NEW H \in SUBSET Shared, NEW topic, NEW groups, NEW k \in Nat,
           groups[k + 1] \in GroupValues,
           \A j \in 1..k : ~OfGroup(groups[j], groups[k + 1]),
           NEW s, ServedTo(s, H, topic, groups, k)
    PROVE  ServedTo(Serve(s, topic, groups[k + 1]), H, topic, groups, k + 1)
<1> DEFINE g == groups[k + 1]
           i == TurnOf(s.targets, g.share, g.filter)
           new == Served(s.targets, i)
           m == Message(s.targets[i].client, topic, g.share, g.filter, FALSE)
           r == Serve(s, topic, g)
<1>1. MembersOf(s.targets, H) /\ g.share \in Shares /\ g.filter \in Filters
  BY DEF ServedTo, GroupValues
<1>2. r = IF i = 0 THEN s ELSE [targets |-> new, out |-> s.out \union {m}]
  BY DEF Serve
<1>3. \A j \in 1..(k + 1) : j \in 1..k \/ j = k + 1
  OBVIOUS
<1>4. k + 1 \in 1..(k + 1) /\ \A j \in 1..k : j \in 1..(k + 1)
  OBVIOUS
<1>5. /\ \A w \in s.out : HandedToMember(w, H, topic) /\ \E j \in 1..k : OfGroup(w, groups[j])
      /\ OneEach(s.out)
      /\ \A j \in 1..k : HasMembers(H, groups[j]) => \E w \in s.out : OfGroup(w, groups[j])
  BY DEF ServedTo
<1>6. \/ i = 0 /\ \A c \in Clients : <<c, g.share, g.filter>> \notin H
      \/ i \in DOMAIN s.targets /\ <<s.targets[i].client, g.share, g.filter>> \in H
  <2> HIDE DEF g
  <2> QED BY <1>1, TurnIs
<1>7. i = 0 => ~HasMembers(H, g)
  <2>1. DOMAIN s.targets \subseteq Nat \ {0}
    BY <1>1, LenProperties DEF MembersOf
  <2>2. i = 0 => \A c \in Clients : <<c, g.share, g.filter>> \notin H
    BY <1>6, <2>1
  <2> QED BY <2>2 DEF HasMembers
<1>8. i # 0 => i \in DOMAIN s.targets /\ <<s.targets[i].client, g.share, g.filter>> \in H
  BY <1>6
<1> HIDE DEF i, r, g
<1>9. CASE i = 0
  <2>1. r = s
    BY <1>2, <1>9
  <2>2. \A w \in r.out :
            HandedToMember(w, H, topic) /\ \E j \in 1..(k + 1) : OfGroup(w, groups[j])
    BY <1>4, <1>5, <2>1
  <2>3. \A j \in 1..(k + 1) :
            HasMembers(H, groups[j]) => \E w \in r.out : OfGroup(w, groups[j])
    BY <1>3, <1>5, <1>7, <1>9, <2>1 DEF g
  <2> QED BY <1>1, <1>5, <2>1, <2>2, <2>3 DEF ServedTo, r, g
<1>10. CASE i # 0
  <2>1. MembersOf(new, H)
    BY <1>1, <1>8, <1>10, ServedMember
  <2>2. HandedToMember(m, H, topic) /\ OfGroup(m, g)
    BY <1>8, <1>10 DEF HandedToMember, OfGroup, Message
  <2>3. \A w \in s.out : ~OfGroup(w, g)
    BY <1>5 DEF OfGroup, g
  <2> HIDE DEF new, m
  <2>4. r.targets = new /\ r.out = s.out \union {m}
    BY <1>2, <1>10
  <2>5. \A w \in r.out :
            HandedToMember(w, H, topic) /\ \E j \in 1..(k + 1) : OfGroup(w, groups[j])
    BY <1>4, <1>5, <2>2, <2>4 DEF g
  <2>6. OneEach(r.out)
    BY <1>5, <2>2, <2>3, <2>4 DEF OneEach, OfGroup
  <2>7. \A j \in 1..(k + 1) :
            HasMembers(H, groups[j]) => \E w \in r.out : OfGroup(w, groups[j])
    BY <1>3, <1>5, <2>2, <2>4 DEF g
  <2> QED BY <2>1, <2>4, <2>5, <2>6, <2>7 DEF ServedTo, r, g
<1> QED BY <1>9, <1>10

(* get_target() for all of them. *)
LEMMA ServingSteps ==
    ASSUME NEW H \in SUBSET Shared, MembersOf(targets, H), NEW topic,
           NEW groups \in Seq(GroupValues),
           \A i, j \in 1..Len(groups) : groups[i] = groups[j] => i = j
    PROVE  ServedTo(Serving(topic, groups)[Len(groups)], H, topic, groups, Len(groups))
<1> DEFINE n == Len(groups)
           V == ServeStates(H, topic)
           b == [targets |-> targets, out |-> {}]
           F == [k \in 1..n |-> [s \in V |-> Serve(s, topic, groups[k])]]
           Is(g) == g = [k \in 0..n |-> IF k = 0 THEN b ELSE Serve(g[k - 1], topic, groups[k])]
<1>1. n \in Nat /\ DOMAIN groups = 1..n /\ \A k \in 1..n : groups[k] \in GroupValues
  BY LenProperties
<1>2. b \in V
  <2>1. targets \in Seq(Members)
    BY DEF MembersOf
  <2> QED BY <2>1 DEF ServeStates
<1>3. \A s \in V, k \in 1..n : Serve(s, topic, groups[k]) \in V
  BY <1>1, OneServed
<1>4. ServedTo(b, H, topic, groups, 0)
  BY DEF ServedTo, OneEach
<1> HIDE DEF V, b
<1>5. F \in [1..n -> [V -> V]]
  BY <1>1, <1>3
<1> HIDE DEF n
<1>6. PICK g \in [0..n -> V] : g[0] = b /\ \A k \in 1..n : g[k] = F[k][g[k - 1]]
  <2> HIDE DEF F, Is
  <2>1. PICK g : IsRecursive(g, n, V, b, F)
    BY <1>1, <1>2, <1>5, Recursion
  <2> QED BY <2>1 DEF IsRecursive
<1>7. Is(g)
  <2>1. \A k \in 0..n : k # 0 => k \in 1..n /\ g[k - 1] \in V
    BY <1>1
  <2>2. \A k \in 0..n : k # 0 => F[k][g[k - 1]] = Serve(g[k - 1], topic, groups[k])
    BY <2>1
  <2>3. \A k \in 0..n : g[k] = IF k = 0 THEN b ELSE Serve(g[k - 1], topic, groups[k])
    <3> HIDE DEF F
    <3> QED BY <1>1, <1>6, <2>1, <2>2
  <2> QED BY <2>3
<1>8. Serving(topic, groups) = CHOOSE fn : Is(fn)
  BY DEF Serving, n, b
<1> HIDE DEF Is
<1>9. Is(Serving(topic, groups))
  BY <1>7, <1>8
<1> DEFINE R == Serving(topic, groups)
<1>10. R = [k \in 0..n |-> IF k = 0 THEN b ELSE Serve(R[k - 1], topic, groups[k])]
  BY <1>9 DEF Is
<1> HIDE DEF R
<1> DEFINE K == {k \in 0..n : ServedTo(R[k], H, topic, groups, k)}
<1>11. 0 \in K
  BY <1>1, <1>4, <1>10
<1>12. ASSUME NEW k \in 0..(n - 1), k \in K PROVE k + 1 \in K
  <2>1. k + 1 \in 1..n /\ k + 1 \in 0..n /\ (k + 1) - 1 = k /\ k \in Nat
    BY <1>1
  <2>2. R[k + 1] = Serve(R[k], topic, groups[k + 1])
    BY <1>1, <1>10, <2>1
  <2>3. groups[k + 1] \in GroupValues
    BY <1>1, <2>1
  <2>4. \A j \in 1..k : ~OfGroup(groups[j], groups[k + 1])
    <3> TAKE j \in 1..k
    <3>1. j \in 1..n /\ j # k + 1
      BY <1>1, <2>1
    <3>2. groups[j] # groups[k + 1] /\ groups[j] \in GroupValues
      BY <1>1, <2>1, <3>1 DEF n
    <3> QED BY <2>3, <3>2 DEF GroupValues, OfGroup
  <2>5. ServedTo(R[k], H, topic, groups, k)
    BY <1>12
  <2>6. ServedTo(Serve(R[k], topic, groups[k + 1]), H, topic, groups, k + 1)
    BY <2>1, <2>3, <2>4, <2>5, OneServedMore
  <2> QED BY <2>1, <2>2, <2>6
<1> HIDE DEF K
<1>13. 0..n \subseteq K
  BY <1>1, <1>11, <1>12, Induction
<1>14. n \in K
  BY <1>1, <1>13
<1> QED BY <1>14 DEF K, R, n

-----------------------------------------------------------------------------
(* What a publish meets *)

(* Who is at a node of the tree was granted the subscription, and the other way round. *)
LEMMA SubscriberIs ==
    ASSUME TopicsAgree(subs, handles, targets, granted),
           NEW f \in DOMAIN subs, NEW c \in DOMAIN subs[f].subs
    PROVE  /\ c \in Clients /\ f \in Filters
           /\ \E g \in granted[c] : /\ g \in Grants /\ g.filter = f
                                    /\ subs[f].subs[c].share = g.share
                                    /\ subs[f].subs[c].nl = g.nl
<1>1. TreeOf(subs, PairsOf(granted)) /\ SubsAgree(subs, granted) /\ GrantsApart(granted)
  BY DEF TopicsAgree
<1>2. c \in Clients /\ <<c, f>> \in PairsOf(granted)
  BY <1>1 DEF TreeOf
<1>3. f \in Filters /\ \E g \in granted[c] : g.filter = f
  BY <1>2 DEF PairsOf, Pairs
<1>4. PICK g \in granted[c] : g.filter = f
  BY <1>3
<1>5. g \in Grants
  BY <1>1, <1>2, <1>4 DEF GrantsApart
<1>6. subs[f].subs[c] = [share |-> g.share, nl |-> g.nl]
  BY <1>1, <1>2, <1>4 DEF SubsAgree
<1> QED BY <1>2, <1>3, <1>4, <1>5, <1>6

LEMMA GrantIs ==
    ASSUME TopicsAgree(subs, handles, targets, granted),
           NEW c \in Clients, NEW g \in granted[c]
    PROVE  /\ g \in Grants /\ g.filter \in Filters /\ g.filter \in DOMAIN subs \ {SM!Root}
           /\ c \in DOMAIN subs[g.filter].subs
           /\ subs[g.filter].subs[c].share = g.share
           /\ subs[g.filter].subs[c].nl = g.nl
           /\ \A h \in granted[c] : h.filter = g.filter => h = g
<1>1. TreeOf(subs, PairsOf(granted)) /\ SubsAgree(subs, granted) /\ GrantsApart(granted)
  BY DEF TopicsAgree
<1>2. /\ g \in Grants /\ <<c, g.filter>> \in PairsOf(granted)
      /\ <<c, g.filter>>[1] = c /\ <<c, g.filter>>[2] = g.filter
      /\ PairsOf(granted) \in SUBSET Pairs
  BY <1>1, PairsGranted
<1>3. g.filter \in Filters
  BY <1>2 DEF Grants
<1>4. g.filter \in Paths /\ g.filter # SM!Root /\ g.filter \in Prefixes(g.filter)
  BY <1>3, FiltersArePaths, PrefixesOf, PathOfIs
<1>5. g.filter \in DOMAIN subs
  BY <1>1, <1>2, <1>4, TreeNodesAre
<1>6. c \in DOMAIN subs[g.filter].subs
  BY <1>1, <1>2, <1>5 DEF TreeOf
<1>7. subs[g.filter].subs[c] = [share |-> g.share, nl |-> g.nl]
  BY <1>1 DEF SubsAgree
<1>8. \A h \in granted[c] : h.filter = g.filter => h = g
  BY <1>1 DEF GrantsApart
<1> QED BY <1>2, <1>3, <1>4, <1>5, <1>6, <1>7, <1>8

LEMMA TopicsArePaths ==
    \A t \in Topics : t \in Paths /\ t # <<>>
<1>1. \A f \in Seq(STRING) : f \in Seq(Levels)
  <2> TAKE f \in Seq(STRING)
  <2>1. Len(f) \in Nat /\ f \in [1..Len(f) -> STRING]
    BY LenProperties
  <2>2. f \in [1..Len(f) -> Levels]
    BY <2>1 DEF Levels
  <2> QED BY <2>1, <2>2, IsASeq
<1> QED BY <1>1, TopicsAssumption DEF Paths

LEMMA FilterFound ==
    ASSUME TopicsAgree(subs, handles, targets, granted), NEW topic \in Topics
    PROVE  SM!Found(subs, topic) = {f \in DOMAIN subs \ {SM!Root} : SM!Matches(f, topic)}
<1>1. TreeOf(subs, PairsOf(granted)) /\ PairsOf(granted) \in SUBSET Pairs
  BY DEF TopicsAgree, PairsOf
<1>2. topic \in Paths /\ topic # <<>>
  BY TopicsArePaths
<1> QED BY <1>1, <1>2, FoundIs

LEMMA SharedMetIs ==
    ASSUME TopicsAgree(subs, handles, targets, granted), NEW topic \in Topics
    PROVE  /\ SharedMet(topic) = {g \in GroupValues : /\ SM!Matches(g.filter, topic)
                                                      /\ HasMembers(SharedOf(granted), g)}
           /\ IsFiniteSet(SharedMet(topic))
<1>1. SM!Found(subs, topic) = {f \in DOMAIN subs \ {SM!Root} : SM!Matches(f, topic)}
  BY FilterFound
<1>2. ASSUME NEW f \in SM!Found(subs, topic), NEW c \in DOMAIN subs[f].subs,
             subs[f].subs[c].share # NotShared
      PROVE  /\ [share |-> subs[f].subs[c].share, filter |-> f] \in GroupValues
             /\ SM!Matches(f, topic)
             /\ <<c, subs[f].subs[c].share, f>> \in SharedOf(granted)
             /\ c \in Clients /\ <<c, f>> \in PairsOf(granted)
  <2>1. f \in DOMAIN subs /\ SM!Matches(f, topic)
    BY <1>1
  <2>2. /\ c \in Clients /\ f \in Filters
        /\ \E g \in granted[c] : /\ g \in Grants /\ g.filter = f
                                 /\ subs[f].subs[c].share = g.share
    BY <2>1, SubscriberIs
  <2>3. subs[f].subs[c].share \in Shares
    BY <1>2, <2>2 DEF Grants
  <2>4. <<c, subs[f].subs[c].share, f>> \in Shared /\ <<c, f>> \in Pairs
    BY <2>2, <2>3 DEF Shared, Pairs
  <2> QED BY <2>1, <2>2, <2>3, <2>4 DEF SharedOf, PairsOf, GroupValues
<1>3. ASSUME NEW x \in SharedMet(topic)
      PROVE  /\ x \in GroupValues /\ SM!Matches(x.filter, topic)
             /\ HasMembers(SharedOf(granted), x)
             /\ \E y \in PairsOf(granted) :
                    x = [share |-> subs[y[2]].subs[y[1]].share, filter |-> y[2]]
  <2>0. PICK f \in SM!Found(subs, topic) : \E c \in DOMAIN subs[f].subs :
            /\ subs[f].subs[c].share # NotShared
            /\ x = [share |-> subs[f].subs[c].share, filter |-> f]
    BY DEF SharedMet
  <2>1. PICK c \in DOMAIN subs[f].subs :
            /\ subs[f].subs[c].share # NotShared
            /\ x = [share |-> subs[f].subs[c].share, filter |-> f]
    BY <2>0
  <2>2. x.share = subs[f].subs[c].share /\ x.filter = f
    BY <2>1
  <2>3. <<c, f>>[1] = c /\ <<c, f>>[2] = f
    OBVIOUS
  <2> QED BY <1>2, <2>1, <2>2, <2>3 DEF HasMembers
<1>4. ASSUME NEW x \in GroupValues, SM!Matches(x.filter, topic), HasMembers(SharedOf(granted), x)
      PROVE  x \in SharedMet(topic)
  <2>1. x = [share |-> x.share, filter |-> x.filter] /\ x.share \in Shares
    BY DEF GroupValues
  <2>2. PICK c \in Clients : <<c, x.share, x.filter>> \in SharedOf(granted)
    BY <1>4 DEF HasMembers
  <2>3. PICK g \in granted[c] : g.share = x.share /\ g.filter = x.filter
    BY <2>2 DEF SharedOf
  <2>4. /\ x.filter \in DOMAIN subs \ {SM!Root} /\ c \in DOMAIN subs[x.filter].subs
        /\ subs[x.filter].subs[c].share = x.share
    BY <2>3, GrantIs
  <2>5. x.filter \in SM!Found(subs, topic) /\ x.share # NotShared
    BY <1>1, <1>4, <2>1, <2>4, TopicsAssumption
  <2> QED BY <2>1, <2>4, <2>5 DEF SharedMet
<1>5. SharedMet(topic) = {g \in GroupValues : /\ SM!Matches(g.filter, topic)
                                              /\ HasMembers(SharedOf(granted), g)}
  BY <1>3, <1>4
<1>6. IsFiniteSet(SharedMet(topic))
  <2> DEFINE P == PairsOf(granted)
             h == [y \in P |-> [share |-> subs[y[2]].subs[y[1]].share, filter |-> y[2]]]
             I == {h[y] : y \in P}
  <2>1. IsFiniteSet(P)
    BY DEF TopicsAgree, GrantsApart
  <2> HIDE DEF P
  <2>2. h \in Surjection(P, I)
    BY DEF Surjection
  <2> HIDE DEF h
  <2>3. IsFiniteSet(I)
    BY <2>1, <2>2, FS_Surjection
  <2>4. SharedMet(topic) \subseteq I
    BY <1>3 DEF P, h
  <2> QED BY <2>3, <2>4, FS_Subset
<1> QED BY <1>5, <1>6

(* do_publish(): everything one publish hands to members of shared subscriptions. *)
LEMMA PublishServes ==
    ASSUME TopicsAgree(subs, handles, targets, granted), NEW topic \in Topics,
           NEW groups \in SetToSeqs(SharedMet(topic))
    PROVE  /\ groups \in Seq(GroupValues)
           /\ \A x \in SharedMet(topic) : \E i \in 1..Len(groups) : groups[i] = x
           /\ \A i \in 1..Len(groups) : groups[i] \in SharedMet(topic)
           /\ ServedTo(Serving(topic, groups)[Len(groups)], SharedOf(granted), topic,
                       groups, Len(groups))
<1> DEFINE S == SharedMet(topic)
<1>1. IsFiniteSet(S) /\ S \subseteq GroupValues
  BY SharedMetIs
<1> HIDE DEF S
<1>2. /\ groups \in [1..Cardinality(S) -> S]
      /\ \A i, j \in 1..Cardinality(S) : groups[i] = groups[j] => i = j
  BY DEF SetToSeqs, S
<1>3. /\ groups \in Seq(S) /\ Len(groups) = Cardinality(S) /\ Cardinality(S) \in Nat
      /\ \A x \in S : \E i \in 1..Len(groups) : groups[i] = x
  BY <1>1, <1>2, ListedOnce
<1>4. \A i \in 1..Len(groups) : groups[i] \in S
  BY <1>2, <1>3
<1>5. groups \in Seq(GroupValues)
  <2>1. groups \in [1..Len(groups) -> GroupValues] /\ Len(groups) \in Nat
    BY <1>1, <1>2, <1>3
  <2> QED BY <2>1, IsASeq
<1>6. MembersOf(targets, SharedOf(granted)) /\ SharedOf(granted) \in SUBSET Shared
  BY DEF TopicsAgree, SharedOf
<1>7. \A i, j \in 1..Len(groups) : groups[i] = groups[j] => i = j
  BY <1>2, <1>3
<1>8. ServedTo(Serving(topic, groups)[Len(groups)], SharedOf(granted), topic,
               groups, Len(groups))
  BY <1>5, <1>6, <1>7, ServingSteps
<1> QED BY <1>3, <1>4, <1>5, <1>8 DEF S

-----------------------------------------------------------------------------
(* The tree, the handles and the members *)

TopicsInv == TopicsAgree(subs, handles, targets, granted)

LEMMA TopicsAgreeStarts == Init => TopicsInv
<1> SUFFICES ASSUME Init PROVE TopicsInv
  OBVIOUS
<1>1. /\ subs = SM!EmptyTree /\ handles = [c \in Clients |-> {}] /\ targets = <<>>
      /\ granted = [c \in Clients |-> {}]
  BY DEF Init
<1>2. PairsOf(granted) = {} /\ SharedOf(granted) = {}
  BY <1>1 DEF PairsOf, SharedOf, Pairs, Shared
<1>3. GrantsApart(granted)
  BY <1>1, <1>2, FS_EmptySet DEF GrantsApart
<1>4. TreeOf(subs, PairsOf(granted))
  <2>1. DOMAIN subs = {SM!Root} /\ subs[SM!Root] = SM!NewNode /\ SM!Root = <<>>
    BY <1>1, PathOfIs DEF SM!EmptyTree
  <2>2. SM!NewNode \in TreeNodes
    BY NewNodeType
  <2>3. subs \in Trees
    <3>1. SM!Root \in Paths
      BY <2>1, EmptySeq DEF Paths
    <3>2. subs \in [{SM!Root} -> TreeNodes]
      BY <1>1, <2>2 DEF SM!EmptyTree
    <3> QED BY <2>1, <3>1, <3>2, TreesAre
  <2>4. /\ SM!Plus \in Levels /\ SM!Hash \in Levels /\ <<>> \in Paths
    BY EmptySeq DEF Levels, Paths
  <2>5. /\ Append(<<>>, SM!Plus) # <<>> /\ Append(<<>>, SM!Hash) # <<>>
    BY <2>4, PrefixesBelow
  <2>6. /\ SM!NewNode.plus = FALSE /\ SM!NewNode.hash = FALSE /\ DOMAIN SM!NewNode.subs = {}
    BY DEF SM!NewNode, SM!Nowhere
  <2> QED BY <1>2, <2>1, <2>3, <2>5, <2>6 DEF TreeOf
<1>5. SubsAgree(subs, granted)
  BY <1>1 DEF SubsAgree
<1>6. handles = [c \in Clients |-> {g.filter : g \in granted[c]}]
  BY <1>1
<1>7. MembersOf(targets, SharedOf(granted))
  <2>1. <<>> \in Seq(Members) /\ DOMAIN <<>> = {}
    BY EmptySeq, LenProperties
  <2>2. MembersOf(<<>>, {})
    BY <2>1 DEF MembersOf, MembersApart
  <2> QED BY <1>1, <1>2, <2>2
<1> QED BY <1>3, <1>4, <1>5, <1>6, <1>7 DEF TopicsInv, TopicsAgree

(* What SUBSCRIBE, UNSUBSCRIBE, PUBLISH and the end of a session keep. *)
LEMMA TopicsAgreeStays ==
    ASSUME ~MixedShares, TopicsInv, [Next]_vars
    PROVE  TopicsInv'
<1>0. TopicsAgree(subs, handles, targets, granted)
  BY DEF TopicsInv
<1> SUFFICES TopicsAgree(subs', handles', targets', granted')
  BY DEF TopicsInv
<1>1. CASE \E c \in Clients, entries \in EntryLists : Subscribe(c, entries)
  <2>1. PICK c \in Clients, entries \in EntryLists : Subscribe(c, entries)
    BY <1>1
  <2>2. entries \in Seq(ListedEntries)
    BY TopicsAssumption DEF ListedEntries
  <2> DEFINE end == Subscribing(c, entries)[Len(entries)]
  <2>3. OneShare(c, entries)
    BY <2>1 DEF Subscribe
  <2>4. end \in MidSubscribes(c, entries)
    BY <1>0, <2>2, <2>3, SubscribingSteps
  <2>5. /\ subs' = end.tree /\ targets' = end.targets
        /\ handles' = [handles EXCEPT ![c] = end.handles]
        /\ granted' = [granted EXCEPT ![c] = end.granted]
    BY <2>1 DEF Subscribe
  <2> HIDE DEF end
  <2> QED BY <2>4, <2>5 DEF MidSubscribes, HandlesWith, GrantedWith
<1>2. CASE \E c \in Clients, share \in Shares \union {NotShared}, f \in Filters :
                Unsubscribe(c, share, f)
  <2>1. PICK c \in Clients, share \in Shares \union {NotShared}, f \in Filters :
                Unsubscribe(c, share, f)
    BY <1>2
  <2>2. OneShareFor(granted[c], share, f)
    <3> DEFINE entries == <<[share |-> share, filter |-> f]>>
    <3>1. OneShare(c, entries)
      BY <2>1 DEF Unsubscribe
    <3>2. 1 \in DOMAIN entries /\ entries[1].filter = f /\ entries[1].share = share
      OBVIOUS
    <3> HIDE DEF entries
    <3> QED BY <3>1, <3>2 DEF OneShare, OneShareFor
  <2>3. /\ subs' = IF SM!Stored(subs, f) THEN SM!Erased(subs, f, c) ELSE subs
        /\ targets' = IF share = NotShared THEN targets ELSE Left(targets, c, share, f)
        /\ handles' = IF SM!Stored(subs, f) THEN [handles EXCEPT ![c] = @ \ {f}] ELSE handles
        /\ granted' = [granted EXCEPT ![c] = {g \in @ : g.share # share \/ g.filter # f}]
    BY <2>1 DEF Unsubscribe
  <2>4. NoEntryDone(subs, handles, targets, granted, c, share, f,
                    subs', handles', targets', granted')
    BY <2>3 DEF NoEntryDone
  <2> QED BY <1>0, <2>2, <2>4, NoEntryAgrees
<1>3. CASE \E c \in Clients : Clean(c)
  BY <1>0, <1>3, NoneAgree
<1>4. ASSUME NEW c, NEW t \in Topics, NEW retain, NEW content, Publish(c, t, retain, content)
      PROVE  TopicsAgree(subs', handles', targets', granted')
  <2>1. UNCHANGED <<subs, handles, granted>>
    BY <1>4 DEF Publish
  <2>2. PICK groups \in SetToSeqs(SharedMet(t)) :
            targets' = Serving(t, groups)[Len(groups)].targets
    BY <1>4 DEF Publish
  <2>3. MembersOf(targets', SharedOf(granted))
    <3>1. ServedTo(Serving(t, groups)[Len(groups)], SharedOf(granted), t, groups, Len(groups))
      BY <1>0, PublishServes
    <3> QED BY <2>2, <3>1 DEF ServedTo
  <2> QED BY <1>0, <2>1, <2>3 DEF TopicsAgree
<1>5. ASSUME NEW t, RetainedExpires(t)
      PROVE  TopicsAgree(subs', handles', targets', granted')
  BY <1>0, <1>5 DEF RetainedExpires
<1>6. CASE UNCHANGED vars
  BY <1>0, <1>6 DEF vars
<1> QED BY <1>1, <1>2, <1>3, <1>4, <1>5, <1>6 DEF Next

LEMMA TopicsInvariant ==
    ASSUME ~MixedShares
    PROVE  Spec => []TopicsInv
<1>1. Init => TopicsInv
  BY TopicsAgreeStarts
<1>2. TopicsInv /\ [Next]_vars => TopicsInv'
  BY TopicsAgreeStays
<1> QED BY <1>1, <1>2, PTL DEF Spec

-----------------------------------------------------------------------------
LEMMA TreeIsExact == TopicsInv => TreeExact
<1> SUFFICES ASSUME TopicsInv PROVE TreeExact
  OBVIOUS
<1> DEFINE S == PairsOf(granted)
           filters == UNION {GrantedFilters(c) : c \in Clients}
           below(p) == {x \in Clients \X Filters :
                            x[2] \in GrantedFilters(x[1]) /\ IsPrefix(p, x[2])}
<1>1. /\ GrantsApart(granted) /\ TreeOf(subs, S) /\ SubsAgree(subs, granted)
      /\ handles = [c \in Clients |-> {g.filter : g \in granted[c]}]
      /\ MembersOf(targets, SharedOf(granted))
  BY DEF TopicsInv, TopicsAgree
<1>2. S \in SUBSET Pairs
  BY DEF PairsOf
<1>3. \A x \in Pairs : x \in S <=> x[2] \in GrantedFilters(x[1])
  BY DEF PairsOf, GrantedFilters
<1>4. \A c \in Clients : GrantedFilters(c) \in SUBSET Filters
  BY <1>1 DEF GrantsApart, Grants, GrantedFilters
<1>5. \A f : f \in filters <=> \E x \in S : x[2] = f
  <2>1. ASSUME NEW c \in Clients, NEW f \in GrantedFilters(c) PROVE <<c, f>> \in S
    <3>1. <<c, f>> \in Pairs /\ <<c, f>>[1] = c /\ <<c, f>>[2] = f
      BY <1>4 DEF Pairs
    <3> QED BY <1>3, <3>1
  <2>2. \A x \in S : x[1] \in Clients /\ x[2] \in GrantedFilters(x[1])
    BY <1>2, <1>3, FiltersArePaths
  <2> HIDE DEF S
  <2>3. ASSUME NEW f \in filters PROVE \E x \in S : x[2] = f
    <3>1. PICK c \in Clients : f \in GrantedFilters(c)
      OBVIOUS
    <3>2. <<c, f>> \in S /\ <<c, f>>[2] = f
      BY <2>1, <3>1
    <3> QED BY <3>2
  <2>4. \A x \in S : x[2] \in filters
    BY <2>2
  <2> QED BY <2>3, <2>4
<1>6. DOMAIN subs = {SM!Root} \union UNION {Prefixes(f) : f \in filters}
  <2>1. DOMAIN subs = {SM!Root} \union UNION {Prefixes(x[2]) : x \in S}
    BY <1>1 DEF TreeOf
  <2> HIDE DEF S, filters
  <2> QED BY <1>5, <2>1
<1>7. ASSUME NEW p \in DOMAIN subs
      PROVE  below(p) = PairsBelow(S, p)
  <2>1. p \in Paths
    BY <1>1, <1>2, TreeNodesAre
  <2>2. \A x \in Pairs : p \in Prefixes(x[2]) <=> IsPrefix(p, x[2])
    BY <2>1, FiltersArePaths, PrefixIs
  <2> QED BY <1>2, <1>3, <2>2 DEF PairsBelow, Pairs
<1>8. ASSUME NEW p \in DOMAIN subs
      PROVE  /\ p # SM!Root => subs[p].count = Cardinality(below(p))
             /\ subs[p].plus <=> Append(p, SM!Plus) \in DOMAIN subs
             /\ subs[p].hash <=> Append(p, SM!Hash) \in DOMAIN subs
             /\ DOMAIN subs[p].subs = {c \in Clients : p \in GrantedFilters(c)}
  <2>1. \A c \in Clients : <<c, p>> \in S <=> p \in GrantedFilters(c)
    <3> TAKE c \in Clients
    <3>1. p \in GrantedFilters(c) => <<c, p>> \in Pairs
      BY <1>4 DEF Pairs
    <3>2. <<c, p>>[1] = c /\ <<c, p>>[2] = p
      OBVIOUS
    <3> QED BY <1>2, <1>3, <3>1, <3>2
  <2> HIDE DEF S, below
  <2> QED BY <1>1, <1>7, <2>1 DEF TreeOf
<1>9. \A c \in Clients : handles[c] = GrantedFilters(c)
  BY <1>1 DEF GrantedFilters
<1>10. ASSUME NEW i \in DOMAIN targets
       PROVE  targets[i].filters = {f \in Filters :
                                    targets[i].client \in GroupMembers(targets[i].share, f)}
  <2>1. /\ targets[i].client \in Clients /\ targets[i].share \in Shares
        /\ targets[i].filters = {f \in Filters :
                <<targets[i].client, targets[i].share, f>> \in SharedOf(granted)}
    <3>1. targets[i] \in Members /\ targets[i].filters = FiltersIn(SharedOf(granted), targets[i])
      BY <1>1, LenProperties DEF MembersOf
    <3>2. targets[i].client \in Clients /\ targets[i].share \in Shares
      BY <3>1 DEF Members
    <3> QED BY <3>1, <3>2 DEF FiltersIn
  <2>2. \A c \in Clients, share \in Shares, f \in Filters :
            <<c, share, f>> \in SharedOf(granted) <=> c \in GroupMembers(share, f)
    BY DEF SharedOf, Shared, GroupMembers
  <2> QED BY <2>1, <2>2
<1> QED BY <1>6, <1>8, <1>9, <1>10 DEF TreeExact

LEMMA OrdinaryIsExact == TopicsInv => OrdinaryExact
<1> SUFFICES ASSUME TopicsInv, NEW source \in Clients, NEW topic \in Topics
             PROVE  Ordinary(source, topic) =
                        {Message(x[1], topic, NotShared, x[2], FALSE) :
                            x \in {y \in Clients \X Filters :
                                    /\ SM!Matches(y[2], topic)
                                    /\ \E g \in granted[y[1]] :
                                        /\ g.share = NotShared /\ g.filter = y[2]
                                        /\ ~(g.nl /\ y[1] = source)}}
  BY DEF OrdinaryExact
<1> DEFINE A == {y \in Clients \X SM!Found(subs, topic) :
                    /\ y[1] \in DOMAIN subs[y[2]].subs
                    /\ subs[y[2]].subs[y[1]].share = NotShared
                    /\ ~(subs[y[2]].subs[y[1]].nl /\ y[1] = source)}
           B == {y \in Clients \X Filters :
                    /\ SM!Matches(y[2], topic)
                    /\ \E g \in granted[y[1]] :
                        /\ g.share = NotShared /\ g.filter = y[2]
                        /\ ~(g.nl /\ y[1] = source)}
<1>1. TopicsAgree(subs, handles, targets, granted)
  BY DEF TopicsInv
<1>2. SM!Found(subs, topic) = {f \in DOMAIN subs \ {SM!Root} : SM!Matches(f, topic)}
  BY <1>1, FilterFound
<1>3. ASSUME NEW c \in Clients, NEW f \in SM!Found(subs, topic), c \in DOMAIN subs[f].subs,
             subs[f].subs[c].share = NotShared, ~(subs[f].subs[c].nl /\ c = source)
      PROVE  /\ f \in Filters /\ SM!Matches(f, topic)
             /\ \E g \in granted[c] : g.share = NotShared /\ g.filter = f /\ ~(g.nl /\ c = source)
  <2>1. f \in DOMAIN subs /\ SM!Matches(f, topic)
    BY <1>2
  <2>2. /\ f \in Filters
        /\ \E g \in granted[c] : /\ g \in Grants /\ g.filter = f
                                 /\ subs[f].subs[c].share = g.share
                                 /\ subs[f].subs[c].nl = g.nl
    BY <1>1, <1>3, <2>1, SubscriberIs
  <2> QED BY <1>3, <2>1, <2>2
<1>4. ASSUME NEW c \in Clients, NEW f \in Filters, SM!Matches(f, topic),
             NEW g \in granted[c], g.share = NotShared, g.filter = f, ~(g.nl /\ c = source)
      PROVE  /\ f \in SM!Found(subs, topic) /\ c \in DOMAIN subs[f].subs
             /\ subs[f].subs[c].share = NotShared /\ ~(subs[f].subs[c].nl /\ c = source)
  <2>1. /\ f \in DOMAIN subs \ {SM!Root} /\ c \in DOMAIN subs[f].subs
        /\ subs[f].subs[c].share = g.share /\ subs[f].subs[c].nl = g.nl
    BY <1>1, <1>4, GrantIs
  <2> QED BY <1>2, <1>4, <2>1
<1>5. A = B
  <2>1. ASSUME NEW y \in A PROVE y \in B
    <3>1. y = <<y[1], y[2]>> /\ y[1] \in Clients /\ y[2] \in SM!Found(subs, topic)
      OBVIOUS
    <3> QED BY <1>3, <3>1
  <2>2. ASSUME NEW y \in B PROVE y \in A
    <3>1. y = <<y[1], y[2]>> /\ y[1] \in Clients /\ y[2] \in Filters
      OBVIOUS
    <3> QED BY <1>4, <3>1
  <2> QED BY <2>1, <2>2
<1>6. Ordinary(source, topic) = {Message(x[1], topic, NotShared, x[2], FALSE) : x \in A}
  BY DEF Ordinary
<1> HIDE DEF A
<1> QED BY <1>5, <1>6

LEMMA SharedServedOnce ==
    ASSUME TopicsInv, NEW c \in Clients, NEW topic \in Topics, Publish(c, topic, FALSE, {})
    PROVE  SharedOnceIn(topic)
<1> SUFFICES ASSUME NEW share \in Shares, NEW f \in Filters
             PROVE  LET got == {m.to : m \in {x \in out' : x.share = share /\ x.filter = f}}
                        may == {d \in GroupMembers(share, f) : <<d, topic>> \in MayRead}
                    IN  /\ got \subseteq may
                        /\ Cardinality(got) <= 1
                        /\ (SM!Matches(f, topic) /\ may # {} /\ may = GroupMembers(share, f))
                                => got # {}
  BY DEF SharedOnceIn
<1> DEFINE H == SharedOf(granted)
           mine == {x \in out' : x.share = share /\ x.filter = f}
           got == {m.to : m \in mine}
           may == {d \in GroupMembers(share, f) : <<d, topic>> \in MayRead}
           group == [share |-> share, filter |-> f]
<1>1. TopicsAgree(subs, handles, targets, granted)
  BY DEF TopicsInv
<1>2. PICK groups \in SetToSeqs(SharedMet(topic)) :
        out' = Readable(Ordinary(c, topic) \union Serving(topic, groups)[Len(groups)].out)
  BY DEF Publish
<1> DEFINE served == Serving(topic, groups)[Len(groups)].out
<1>3. /\ \A x \in SharedMet(topic) : \E i \in 1..Len(groups) : groups[i] = x
      /\ \A m \in served : HandedToMember(m, H, topic)
      /\ OneEach(served)
      /\ \A j \in 1..Len(groups) :
            HasMembers(H, groups[j]) => \E m \in served : OfGroup(m, groups[j])
  BY <1>1, PublishServes DEF ServedTo
<1> HIDE DEF served
<1>4. \A m \in Ordinary(c, topic) : m.share \notin Shares
  BY TopicsAssumption DEF Ordinary, Message
<1>5. \A x : x \in mine <=> /\ x \in served /\ x.share = share /\ x.filter = f
                            /\ <<x.to, x.topic>> \in MayRead
  BY <1>2, <1>4 DEF Readable, served
<1> HIDE DEF mine
<1>6. \A m \in served : /\ m.topic = topic
                        /\ m.share = share /\ m.filter = f => m.to \in GroupMembers(share, f)
  <2> TAKE m \in served
  <2>1. m = Message(m.to, topic, m.share, m.filter, FALSE) /\ <<m.to, m.share, m.filter>> \in H
    BY <1>3 DEF HandedToMember
  <2>2. m.topic = topic
    BY <2>1 DEF Message
  <2>3. ASSUME m.share = share, m.filter = f PROVE m.to \in GroupMembers(share, f)
    BY <2>1, <2>3 DEF SharedOf, Shared, GroupMembers
  <2> QED BY <2>2, <2>3
<1>7. got \subseteq may
  BY <1>5, <1>6
<1>8. Cardinality(got) <= 1
  <2>1. \A m, w \in mine : m = w
    <3> TAKE m, w \in mine
    <3>1. /\ m \in served /\ m.share = share /\ m.filter = f
          /\ w \in served /\ w.share = share /\ w.filter = f
      BY <1>5
    <3>2. OfGroup(m, w)
      BY <3>1 DEF OfGroup
    <3> QED BY <1>3, <3>1, <3>2 DEF OneEach
  <2>2. CASE mine = {}
    <3>1. got = {}
      BY <2>2
    <3> HIDE DEF got
    <3> QED BY <3>1, FS_EmptySet
  <2>3. CASE mine # {}
    <3>1. PICK m \in mine : TRUE
      BY <2>3
    <3>2. got = {m.to}
      BY <2>1, <3>1
    <3> HIDE DEF got
    <3> QED BY <3>2, FS_Singleton
  <2> QED BY <2>2, <2>3
<1>9. ASSUME SM!Matches(f, topic), may # {}, may = GroupMembers(share, f)
      PROVE  got # {}
  <2>1. PICK d \in GroupMembers(share, f) : TRUE
    BY <1>9
  <2>2. <<d, share, f>> \in H /\ d \in Clients
    BY <2>1 DEF GroupMembers, SharedOf, Shared
  <2>3. group \in GroupValues /\ group.share = share /\ group.filter = f
    BY DEF GroupValues
  <2> HIDE DEF group
  <2>4. HasMembers(H, group)
    BY <2>2, <2>3 DEF HasMembers
  <2>5. group \in SharedMet(topic)
    BY <1>1, <1>9, <2>3, <2>4, SharedMetIs
  <2>6. PICK m \in served : OfGroup(m, group)
    BY <1>3, <2>4, <2>5
  <2>7. m.share = share /\ m.filter = f
    BY <2>3, <2>6 DEF OfGroup
  <2>8. m.to \in may /\ m.topic = topic
    BY <1>6, <1>9, <2>7
  <2>9. m \in mine
    BY <1>5, <2>7, <2>8
  <2> QED BY <2>9
<1> QED BY <1>7, <1>8, <1>9 DEF mine

-----------------------------------------------------------------------------
(* Whatever is subscribed, replaced, unsubscribed and cleaned, in whatever *)
(* order: the tree has no node without a subscription below it, its counts *)
(* and its wildcard flags are exact, and no handle and no member of a      *)
(* shared subscription is left behind (subscription_map.hpp,               *)
(* session_state.hpp, shared_target_impl.hpp). A client that uses one      *)
(* filter under several share names breaks it: the tree has one entry for  *)
(* a client and a filter.                                                  *)
THEOREM TreeStaysExact ==
    ASSUME ~MixedShares
    PROVE  Spec => []TreeExact
<1>1. Spec => []TopicsInv
  BY TopicsInvariant
<1>2. TopicsInv => TreeExact
  BY TreeIsExact
<1> QED BY <1>1, <1>2, PTL

(* The walk of find_match() level by level, the wildcard flags and the     *)
(* early end at a leading $ find exactly the granted subscriptions whose   *)
(* filter matches as topic_filter.hpp says it does: do_publish() hands     *)
(* each of them the message once, and nobody else.                         *)
THEOREM PublishGoesToSubscribers ==
    ASSUME ~MixedShares
    PROVE  Spec => []OrdinaryExact
<1>1. Spec => []TopicsInv
  BY TopicsInvariant
<1>2. TopicsInv => OrdinaryExact
  BY OrdinaryIsExact
<1> QED BY <1>1, <1>2, PTL

(* get_target() serves each shared subscription that matches exactly once, *)
(* in whatever order the tree reports them and however often the members   *)
(* have joined, left and been cleaned.                                     *)
THEOREM SharedServesOnce ==
    ASSUME ~MixedShares
    PROVE  Spec => SharedOnce
<1>1. Spec => []TopicsInv
  BY TopicsInvariant
<1>2. TopicsInv /\ [Next]_vars
        => [\A c \in Clients, t \in Topics : Publish(c, t, FALSE, {}) => SharedOnceIn(t)]_vars
  BY SharedServedOnce
<1> QED BY <1>1, <1>2, PTL DEF Spec, SharedOnce

-----------------------------------------------------------------------------
(* Retained messages: the nodes *)

(* The sequences and sets RetainedTopicMap works with are the same. *)
LEMMA SequencesOfMap ==
    ASSUME NEW s, NEW P, NEW p, NEW q
    PROVE  /\ RM!Selected(s, P) = Selected(s, P)
           /\ RM!IsPrefix(p, q) = IsPrefix(p, q)
           /\ RM!IsStrictPrefix(p, q) = IsStrictPrefix(p, q)
           /\ RM!ToSet(s) = ToSet(s)
<1>1. \A S : RM!Cardinality(S) = Cardinality(S)
  BY Zenon DEF RM!Cardinality, Cardinality
<1>2. \A S, i : RM!Rank(S, i) = Rank(S, i)
  BY <1>1 DEF RM!Rank, Rank
<1>3. \A S, i : RM!Nth(S, i) = Nth(S, i)
  BY <1>2 DEF RM!Nth, Nth
<1>4. RM!Selected(s, P) = Selected(s, P)
  BY <1>1, <1>3 DEF RM!Selected, Selected
<1>5. /\ RM!IsPrefix(p, q) = IsPrefix(p, q)
      /\ RM!IsStrictPrefix(p, q) = IsStrictPrefix(p, q)
  BY DEF RM!IsPrefix, IsPrefix, RM!IsStrictPrefix, IsStrictPrefix
<1>6. RM!ToSet(s) = ToSet(s)
  BY DEF RM!ToSet, ToSet
<1> QED BY <1>4, <1>5, <1>6
NodeValues == [count : Nat, value : SUBSET Contents]

PathsBelow(T, p) == {t \in T : p \in Prefixes(t)}

(* Exactly the nodes and the counts that the topics in T call for, and at each
   its message. *)
NodesOf(nodes, T, lt) ==
    /\ nodes \in [DOMAIN nodes -> NodeValues]
    /\ DOMAIN nodes = {RM!Root} \union UNION {Prefixes(t) : t \in T}
    /\ \A p \in DOMAIN nodes :
        /\ p # RM!Root => nodes[p].count = Cardinality(PathsBelow(T, p))
        /\ nodes[p].value = IF p \in T THEN lt[p] ELSE {}

Holds(lt) == {t \in Topics : lt[t] # {}}

MapOf(map, lt) ==
    /\ lt \in [Topics -> SUBSET Contents]
    /\ IsFiniteSet(Holds(lt))
    /\ NodesOf(map.nodes, Holds(lt), lt)
    /\ map.order \in Seq(Paths)
    /\ map = [nodes |-> map.nodes, order |-> map.order]

LEMMA PathsCounted ==
    ASSUME NEW T, IsFiniteSet(T), NEW p, NEW t
    PROVE  /\ Cardinality(PathsBelow(T, p)) \in Nat
           /\ p \in Prefixes(t) /\ t \notin T
                => Cardinality(PathsBelow(T \union {t}, p)) = Cardinality(PathsBelow(T, p)) + 1
           /\ p \notin Prefixes(t) \/ t \in T
                => PathsBelow(T \union {t}, p) = PathsBelow(T, p)
           /\ p \in Prefixes(t) /\ t \in T
                => Cardinality(PathsBelow(T \ {t}, p)) = Cardinality(PathsBelow(T, p)) - 1
           /\ p \notin Prefixes(t) \/ t \notin T
                => PathsBelow(T \ {t}, p) = PathsBelow(T, p)
           /\ Cardinality(PathsBelow(T, p)) = 0 <=> PathsBelow(T, p) = {}
<1> DEFINE B == PathsBelow(T, p)
<1>1. IsFiniteSet(B) /\ Cardinality(B) \in Nat
  BY FS_Subset, FS_CardinalityType DEF PathsBelow
<1>2. Cardinality(B) = 0 <=> B = {}
  BY <1>1, FS_EmptySet
<1>3. p \in Prefixes(t) /\ t \notin T => PathsBelow(T \union {t}, p) = B \union {t} /\ t \notin B
  BY DEF PathsBelow
<1>4. p \notin Prefixes(t) \/ t \in T => PathsBelow(T \union {t}, p) = B
  BY DEF PathsBelow
<1>5. p \in Prefixes(t) /\ t \in T => PathsBelow(T \ {t}, p) = B \ {t} /\ t \in B
  BY DEF PathsBelow
<1>6. p \notin Prefixes(t) \/ t \notin T => PathsBelow(T \ {t}, p) = B
  BY DEF PathsBelow
<1> HIDE DEF B
<1>7. /\ t \notin B => Cardinality(B \union {t}) = Cardinality(B) + 1
      /\ t \in B => Cardinality(B \ {t}) = Cardinality(B) - 1
  BY <1>1, FS_AddElement, FS_RemoveElement
<1> QED BY <1>1, <1>2, <1>3, <1>4, <1>5, <1>6, <1>7 DEF B

LEMMA NodesAre ==
    ASSUME NEW nodes, NEW T \in SUBSET Topics, NEW lt, NodesOf(nodes, T, lt)
    PROVE  /\ RM!Root \in DOMAIN nodes /\ RM!Root = <<>>
           /\ \A p : p \in DOMAIN nodes <=> p = RM!Root \/ \E t \in T : p \in Prefixes(t)
           /\ \A p \in DOMAIN nodes : Prefixes(p) \subseteq DOMAIN nodes /\ p \in Paths
           /\ \A t \in Topics : RM!PathOf(t) \subseteq DOMAIN nodes <=> t \in DOMAIN nodes
<1>1. /\ RM!Root \in DOMAIN nodes /\ RM!Root = <<>> /\ RM!Root \in Paths
      /\ \A p : p \in DOMAIN nodes <=> p = RM!Root \/ \E t \in T : p \in Prefixes(t)
  BY PathOfIs, EmptySeq DEF NodesOf, Paths
<1>2. \A t \in Topics : t \in Paths /\ t # <<>>
  BY TopicsArePaths
<1>3. ASSUME NEW p \in DOMAIN nodes PROVE p \in Paths /\ Prefixes(p) \subseteq DOMAIN nodes
  <2>1. CASE p = RM!Root
    <3>1. \A q \in Prefixes(p) : q = <<>>
      <4> TAKE q \in Prefixes(p)
      <4>1. q \in Paths
        BY <1>1, <2>1, PrefixesOf
      <4>2. Len(q) <= 0 /\ Len(q) \in Nat
        BY <1>1, <2>1, <4>1, PrefixIs, EmptySeq, LenProperties DEF Paths
      <4> QED BY <4>1, <4>2, EmptySeq, LenProperties DEF Paths
    <3> QED BY <1>1, <2>1, <3>1
  <2>2. CASE p # RM!Root
    <3>1. PICK t \in T : p \in Prefixes(t)
      BY <1>1, <2>2
    <3>2. p \in Paths /\ Prefixes(p) \subseteq Prefixes(t)
      BY <1>2, <3>1, PrefixesOf
    <3> QED BY <1>1, <3>1, <3>2
  <2> QED BY <2>1, <2>2
<1>4. ASSUME NEW t \in Topics
      PROVE  RM!PathOf(t) \subseteq DOMAIN nodes <=> t \in DOMAIN nodes
  <2>1. t \in Prefixes(t) /\ t # RM!Root /\ RM!PathOf(t) = Prefixes(t) \ {RM!Root}
    BY <1>1, <1>2, PrefixesOf, PathOfIs
  <2> QED BY <1>3, <2>1
<1> QED BY <1>1, <1>3, <1>4

(* insert_or_assign() of a message: first the nodes, then the value. *)
CountedBase(map, topic, base) ==
    /\ base = [nodes |-> base.nodes, order |-> base.order]
    /\ base.order \in Seq(Paths)
    /\ DOMAIN base.nodes = DOMAIN map.nodes \union RM!PathOf(topic)
    /\ base.nodes \in [DOMAIN base.nodes -> NodeValues]
    /\ \A p \in DOMAIN base.nodes :
        /\ base.nodes[p].count = IF p \notin DOMAIN map.nodes THEN 1
                                 ELSE IF p \in RM!PathOf(topic) THEN map.nodes[p].count + 1
                                 ELSE map.nodes[p].count
        /\ base.nodes[p].value = IF p \in DOMAIN map.nodes THEN map.nodes[p].value ELSE {}

LEMMA CreatedTopicIs ==
    ASSUME NEW topic \in Topics, NEW map, map = [nodes |-> map.nodes, order |-> map.order],
           map.nodes \in [DOMAIN map.nodes -> NodeValues], map.order \in Seq(Paths)
    PROVE  CountedBase(map, topic, RM!CreatedTopic(map, topic))
<1> DEFINE base == RM!CreatedTopic(map, topic)
           D == DOMAIN map.nodes \union RM!PathOf(topic)
           paths == [i \in 1..Len(topic) |-> SubSeq(topic, 1, i)]
           P == {i \in DOMAIN paths : paths[i] \notin DOMAIN map.nodes}
           nodes == [p \in D |->
                        IF p \notin DOMAIN map.nodes THEN RM!Node(RM!Empty)
                        ELSE IF p \in RM!PathOf(topic)
                        THEN [map.nodes[p] EXCEPT !.count = @ + 1]
                        ELSE map.nodes[p]]
<1>1. base = [nodes |-> nodes, order |-> map.order \o RM!Selected(paths, P)]
  BY DEF RM!CreatedTopic
<1>2. map.order \o RM!Selected(paths, P) \in Seq(Paths)
  <2>1. topic \in Paths /\ Len(topic) \in Nat
    BY TopicsArePaths, LenProperties DEF Paths
  <2>2. \A i \in 1..Len(topic) : SubSeq(topic, 1, i) \in Paths
    BY <2>1, SubSeqProperties, LenProperties DEF Paths
  <2>3. paths \in Seq(Paths)
    <3>1. paths \in [1..Len(topic) -> Paths]
      BY <2>2
    <3> HIDE DEF paths
    <3> QED BY <2>1, <3>1, FunctionsAreSequences
  <2> HIDE DEF paths
  <2>4. /\ Cardinality(P) \in Nat
        /\ Selected(paths, P) \in [1..Cardinality(P) -> Paths]
    BY <2>3, SelectedEntries
  <2> HIDE DEF P
  <2>5. Selected(paths, P) \in Seq(Paths)
    BY <2>4, FunctionsAreSequences
  <2>6. RM!Selected(paths, P) = Selected(paths, P)
    BY SequencesOfMap
  <2> QED BY <2>5, <2>6, ConcatProperties
<1> DEFINE order == map.order \o RM!Selected(paths, P)
<1> HIDE DEF order
<1>3. \A p \in D : /\ nodes[p] \in NodeValues
                   /\ nodes[p].count = IF p \notin DOMAIN map.nodes THEN 1
                                       ELSE IF p \in RM!PathOf(topic) THEN map.nodes[p].count + 1
                                       ELSE map.nodes[p].count
                   /\ nodes[p].value = IF p \in DOMAIN map.nodes THEN map.nodes[p].value ELSE {}
  <2> TAKE p \in D
  <2>1. p \in DOMAIN map.nodes => map.nodes[p] \in NodeValues
    OBVIOUS
  <2> DEFINE r == map.nodes[p]
  <2>2. nodes[p] = IF p \notin DOMAIN map.nodes THEN RM!Node(RM!Empty)
                   ELSE IF p \in RM!PathOf(topic) THEN [r EXCEPT !.count = @ + 1] ELSE r
    OBVIOUS
  <2> HIDE DEF r, nodes, D
  <2>3. RM!Node(RM!Empty) = [count |-> 1, value |-> {}]
    BY DEF RM!Node, RM!Empty
  <2>4. p \in DOMAIN map.nodes => r \in NodeValues
    BY <2>1 DEF r
  <2> QED BY <2>2, <2>3, <2>4 DEF NodeValues, r
<1>4. nodes \in [D -> NodeValues] /\ DOMAIN nodes = D
  BY <1>3
<1> HIDE DEF nodes, D
<1>5. base.nodes = nodes /\ base.order = order
  BY <1>1 DEF order
<1> HIDE DEF base
<1>6. base = [nodes |-> base.nodes, order |-> base.order]
  BY <1>1, <1>5 DEF order
<1> QED BY <1>2, <1>3, <1>4, <1>5, <1>6 DEF CountedBase, base, order, D

LEMMA CountedTopicIs ==
    ASSUME NEW topic \in Topics, NEW map, map = [nodes |-> map.nodes, order |-> map.order],
           map.nodes \in [DOMAIN map.nodes -> NodeValues], map.order \in Seq(Paths),
           RM!PathOf(topic) \subseteq DOMAIN map.nodes
    PROVE  CountedBase(map, topic, RM!CountedTopic(map, topic))
<1> DEFINE base == RM!CountedTopic(map, topic)
           old == map.nodes
           D == DOMAIN old
           nodes == [p \in D |-> IF p \in RM!PathOf(topic) THEN [old[p] EXCEPT !.count = @ + 1]
                                 ELSE old[p]]
<1>1. base = [nodes |-> nodes, order |-> map.order]
  BY DEF RM!CountedTopic
<1>2. old \in [D -> NodeValues]
  OBVIOUS
<1> HIDE DEF old
<1>3. \A p \in D : /\ nodes[p] \in NodeValues
                   /\ nodes[p].count = IF p \in RM!PathOf(topic) THEN old[p].count + 1
                                       ELSE old[p].count
                   /\ nodes[p].value = old[p].value
  <2> HIDE DEF D
  <2> TAKE p \in D
  <2> DEFINE r == old[p]
  <2>1. r \in NodeValues
    BY <1>2
  <2>2. nodes[p] = IF p \in RM!PathOf(topic) THEN [r EXCEPT !.count = @ + 1] ELSE r
    OBVIOUS
  <2> HIDE DEF r, nodes
  <2>3. r.count \in Nat /\ [r EXCEPT !.count = @ + 1] = [count |-> r.count + 1, value |-> r.value]
    BY <2>1 DEF NodeValues
  <2> QED BY <2>1, <2>2, <2>3 DEF NodeValues, r
<1>4. nodes \in [D -> NodeValues] /\ DOMAIN nodes = D
  BY <1>3
<1> HIDE DEF nodes
<1>5. base.nodes = nodes /\ base.order = map.order
  BY <1>1
<1> HIDE DEF base
<1>6. base = [nodes |-> base.nodes, order |-> base.order]
  BY <1>1, <1>5
<1> QED BY <1>3, <1>4, <1>5, <1>6 DEF CountedBase, base, old, D

LEMMA RetainedMap ==
    ASSUME NEW lt, NEW map, MapOf(map, lt), NEW topic \in Topics, NEW v \in Contents,
           NEW lt2, lt2 = [lt EXCEPT ![topic] = {v}]
    PROVE  MapOf(RM!Retained(map, topic, v), lt2)
<1> DEFINE T == Holds(lt)
           D == DOMAIN map.nodes
           base == IF ~RM!HasTopic(map, topic) THEN RM!CreatedTopic(map, topic)
                   ELSE IF map.nodes[topic].value = RM!Empty THEN RM!CountedTopic(map, topic)
                   ELSE map
           new == RM!Retained(map, topic, v)
<1>1. /\ lt \in [Topics -> SUBSET Contents] /\ IsFiniteSet(T) /\ T \in SUBSET Topics
      /\ NodesOf(map.nodes, T, lt) /\ map.order \in Seq(Paths)
      /\ map = [nodes |-> map.nodes, order |-> map.order]
      /\ map.nodes \in [D -> NodeValues]
  BY DEF MapOf, NodesOf, Holds
<1>2. /\ RM!Root \in D /\ RM!Root = <<>>
      /\ \A p : p \in D <=> p = RM!Root \/ \E t \in T : p \in Prefixes(t)
      /\ RM!PathOf(topic) \subseteq D <=> topic \in D
      /\ RM!PathOf(topic) = Prefixes(topic) \ {RM!Root}
      /\ topic \in Prefixes(topic) /\ topic # RM!Root
  BY <1>1, NodesAre, TopicsArePaths, PrefixesOf, PathOfIs
<1>3. RM!HasTopic(map, topic) <=> topic \in D
  BY <1>2 DEF RM!HasTopic
<1>4. \A p \in D : /\ map.nodes[p].value = IF p \in T THEN lt[p] ELSE {}
                   /\ p # RM!Root => map.nodes[p].count = Cardinality(PathsBelow(T, p))
  BY <1>1 DEF NodesOf
<1>5. topic \in T => topic \in D /\ map.nodes[topic].value # {}
  BY <1>2, <1>4 DEF Holds
<1>6. /\ lt2 \in [Topics -> SUBSET Contents]
      /\ Holds(lt2) = T \union {topic}
      /\ \A p \in T \union {topic} : lt2[p] = IF p = topic THEN {v} ELSE lt[p]
  BY <1>1 DEF Holds
<1>7. IsFiniteSet(T \union {topic})
  BY <1>1, FS_AddElement
<1> HIDE DEF T, D
<1>8. /\ base = [nodes |-> base.nodes, order |-> base.order]
      /\ base.order \in Seq(Paths)
      /\ DOMAIN base.nodes = D \union RM!PathOf(topic)
      /\ base.nodes \in [DOMAIN base.nodes -> NodeValues]
      /\ \A p \in DOMAIN base.nodes :
            /\ base.nodes[p].count = IF p \notin D THEN 1
                                     ELSE IF p \in RM!PathOf(topic) /\ topic \notin T
                                     THEN map.nodes[p].count + 1
                                     ELSE map.nodes[p].count
            /\ base.nodes[p].value = IF p \in D THEN map.nodes[p].value ELSE {}
  <2>1. CASE topic \notin D
    <3>1. base = RM!CreatedTopic(map, topic) /\ topic \notin T
      BY <1>3, <1>5, <2>1
    <3>2. CountedBase(map, topic, base)
      BY <1>1, <3>1, CreatedTopicIs DEF D
    <3> HIDE DEF base
    <3> QED BY <3>1, <3>2 DEF CountedBase, D
  <2>2. CASE topic \in D /\ topic \notin T
    <3>1. base = RM!CountedTopic(map, topic)
      BY <1>3, <1>4, <2>2 DEF RM!Empty
    <3>2. CountedBase(map, topic, base)
      BY <1>1, <1>2, <2>2, <3>1, CountedTopicIs DEF D
    <3> HIDE DEF base
    <3> QED BY <2>2, <3>2 DEF CountedBase, D
  <2>3. CASE topic \in D /\ topic \in T
    <3>1. base = map
      BY <1>3, <1>5, <2>3 DEF RM!Empty
    <3> HIDE DEF base
    <3> QED BY <1>1, <1>2, <2>3, <3>1 DEF D
  <2> QED BY <2>1, <2>2, <2>3
<1>9. new = [base EXCEPT !.nodes[topic].value = {v}]
  BY DEF RM!Retained
<1> DEFINE old == base.nodes
           E == DOMAIN old
           nodes == [old EXCEPT ![topic].value = {v}]
<1>10. new = [nodes |-> nodes, order |-> base.order]
  <2> HIDE DEF base
  <2> QED BY <1>8, <1>9
<1>11. /\ topic \in E /\ old \in [E -> NodeValues] /\ E = D \union RM!PathOf(topic)
  BY <1>2, <1>8
<1> HIDE DEF old, E
<1>12. \A p \in E : /\ nodes[p] \in NodeValues
                    /\ nodes[p].count = old[p].count
                    /\ nodes[p].value = IF p = topic THEN {v} ELSE old[p].value
  <2> TAKE p \in E
  <2> DEFINE r == old[p]
  <2>1. r \in NodeValues
    BY <1>11
  <2>2. nodes[p] = IF p = topic THEN [r EXCEPT !.value = {v}] ELSE r
    BY <1>11
  <2> HIDE DEF r, nodes
  <2> QED BY <2>1, <2>2 DEF NodeValues, r
<1>13. DOMAIN nodes = E /\ nodes \in [E -> NodeValues]
  <2>1. DOMAIN nodes = E
    BY <1>11
  <2>2. nodes = [p \in E |-> nodes[p]]
    BY <1>11
  <2> HIDE DEF nodes
  <2> QED BY <1>12, <2>1, <2>2
<1> HIDE DEF nodes
<1>14. /\ new.nodes = nodes /\ new.order = base.order
       /\ new = [nodes |-> new.nodes, order |-> new.order]
  <2> HIDE DEF base, new
  <2> QED BY <1>10
<1>15. DOMAIN nodes = {RM!Root} \union UNION {Prefixes(t) : t \in T \union {topic}}
  <2>1. \A p : p \in D \union RM!PathOf(topic)
                <=> p = RM!Root \/ \E t \in T \union {topic} : p \in Prefixes(t)
    BY <1>2
  <2> QED BY <1>11, <1>13, <2>1
<1>16. ASSUME NEW p \in DOMAIN nodes
       PROVE  /\ p # RM!Root => nodes[p].count = Cardinality(PathsBelow(T \union {topic}, p))
              /\ nodes[p].value = IF p \in T \union {topic} THEN lt2[p] ELSE {}
  <2>1. nodes[p].count = IF p \notin D THEN 1
                         ELSE IF p \in RM!PathOf(topic) /\ topic \notin T
                         THEN map.nodes[p].count + 1
                         ELSE map.nodes[p].count
    <3> HIDE DEF base
    <3> QED BY <1>8, <1>12, <1>13 DEF old, E
  <2>2. nodes[p].value = IF p = topic THEN {v}
                         ELSE IF p \in D THEN map.nodes[p].value ELSE {}
    <3> HIDE DEF base
    <3> QED BY <1>8, <1>12, <1>13 DEF old, E
  <2>3. p \in D \union RM!PathOf(topic)
    BY <1>11, <1>13
  <2>4. p \in T => p \in D
    <3>1. \A t \in T : t \in Prefixes(t)
      BY <1>1, TopicsArePaths, PrefixesOf
    <3> QED BY <1>2, <3>1
  <2>5. nodes[p].value = IF p \in T \union {topic} THEN lt2[p] ELSE {}
    BY <1>4, <1>6, <2>2, <2>4
  <2>6. ASSUME p # RM!Root
        PROVE  nodes[p].count = Cardinality(PathsBelow(T \union {topic}, p))
    <3>1. CASE p \notin D
      <4>0. p \in Prefixes(topic) /\ topic \notin T
        BY <1>2, <1>5, <2>3, <3>1
      <4>1. p \in Prefixes(topic) /\ PathsBelow(T, p) = {} /\ topic \notin T
        BY <1>2, <1>5, <2>3, <3>1 DEF PathsBelow
      <4>2. Cardinality(PathsBelow(T \union {topic}, p)) = Cardinality(PathsBelow(T, p)) + 1
        BY <1>1, <4>0, PathsCounted
      <4>3. Cardinality(PathsBelow(T, p)) = 0
        BY <4>1, FS_EmptySet
      <4> QED BY <2>1, <3>1, <4>2, <4>3
    <3>2. CASE p \in D /\ p \in Prefixes(topic) /\ topic \notin T
      <4>1. Cardinality(PathsBelow(T \union {topic}, p)) = Cardinality(PathsBelow(T, p)) + 1
        BY <1>1, <3>2, PathsCounted
      <4> QED BY <1>2, <1>4, <2>1, <2>6, <3>2, <4>1
    <3>3. CASE p \in D /\ (p \notin Prefixes(topic) \/ topic \in T)
      <4>1. PathsBelow(T \union {topic}, p) = PathsBelow(T, p)
        BY <1>1, <3>3, PathsCounted
      <4> QED BY <1>2, <1>4, <2>1, <2>6, <3>3, <4>1
    <3> QED BY <3>1, <3>2, <3>3
  <2> QED BY <2>5, <2>6
<1>17. NodesOf(nodes, T \union {topic}, lt2)
  BY <1>13, <1>15, <1>16 DEF NodesOf
<1> HIDE DEF base, new
<1> QED BY <1>6, <1>7, <1>8, <1>14, <1>17 DEF MapOf, new
LEMMA SelectedPaths ==
    ASSUME NEW s \in Seq(Paths), NEW P \in SUBSET DOMAIN s
    PROVE  /\ RM!Selected(s, P) \in Seq(Paths)
           /\ \A k \in DOMAIN RM!Selected(s, P) : \E i \in P : RM!Selected(s, P)[k] = s[i]
<1>1. /\ Cardinality(P) \in Nat
      /\ Selected(s, P) \in [1..Cardinality(P) -> Paths]
      /\ \A k \in 1..Cardinality(P) : Nth(P, k) \in P /\ Selected(s, P)[k] = s[Nth(P, k)]
  BY SelectedEntries
<1>2. Selected(s, P) \in Seq(Paths)
  BY <1>1, FunctionsAreSequences
<1>3. DOMAIN Selected(s, P) = 1..Cardinality(P)
  BY <1>1
<1>4. RM!Selected(s, P) = Selected(s, P)
  BY SequencesOfMap
<1> QED BY <1>1, <1>2, <1>3, <1>4

LEMMA DroppedMap ==
    ASSUME NEW lt, NEW map, MapOf(map, lt), NEW topic \in Topics,
           NEW lt2, lt2 = [lt EXCEPT ![topic] = {}]
    PROVE  MapOf(RM!Dropped(map, topic), lt2)
<1> DEFINE T == Holds(lt)
           D == DOMAIN map.nodes
           new == RM!Dropped(map, topic)
           gone == {p \in RM!PathOf(topic) : map.nodes[p].count = 1}
           less == [p \in D \ gone |->
                        [count |-> map.nodes[p].count - (IF p \in RM!PathOf(topic) THEN 1 ELSE 0),
                         value |-> IF p = topic THEN RM!Empty ELSE map.nodes[p].value]]
           order == RM!Selected(map.order, {i \in DOMAIN map.order : map.order[i] \notin gone})
<1>1. /\ lt \in [Topics -> SUBSET Contents] /\ IsFiniteSet(T) /\ T \in SUBSET Topics
      /\ NodesOf(map.nodes, T, lt) /\ map.order \in Seq(Paths)
      /\ map = [nodes |-> map.nodes, order |-> map.order]
      /\ map.nodes \in [D -> NodeValues]
  BY DEF MapOf, NodesOf, Holds
<1>2. /\ RM!Root \in D /\ RM!Root = <<>>
      /\ \A p : p \in D <=> p = RM!Root \/ \E t \in T : p \in Prefixes(t)
      /\ RM!PathOf(topic) = Prefixes(topic) \ {RM!Root}
      /\ topic \in Prefixes(topic) /\ topic # RM!Root
  BY <1>1, NodesAre, TopicsArePaths, PrefixesOf, PathOfIs
<1>3. \A p \in D : /\ map.nodes[p].value = IF p \in T THEN lt[p] ELSE {}
                   /\ p # RM!Root => map.nodes[p].count = Cardinality(PathsBelow(T, p))
                   /\ map.nodes[p].count \in Nat /\ map.nodes[p].value \in SUBSET Contents
  BY <1>1 DEF NodesOf, NodeValues
<1>4. \A t \in T : t \in D /\ t # RM!Root /\ lt[t] # {}
  <2>1. \A t \in T : t \in Prefixes(t) /\ t # <<>>
    BY <1>1, TopicsArePaths, PrefixesOf
  <2> QED BY <1>2, <2>1 DEF Holds
<1>5. topic \in RM!Holding(map) <=> topic \in T
  BY <1>3, <1>4 DEF RM!Holding, RM!Empty
<1>6. /\ lt2 \in [Topics -> SUBSET Contents]
      /\ Holds(lt2) = T \ {topic}
      /\ \A p \in T \ {topic} : lt2[p] = lt[p]
  BY <1>1 DEF Holds
<1>7. IsFiniteSet(T \ {topic})
  BY <1>1, FS_Subset
<1>8. CASE topic \notin T
  <2>1. new = map
    BY <1>5, <1>8 DEF RM!Dropped
  <2>2. lt2 = lt
    BY <1>1, <1>8 DEF Holds
  <2> QED BY <2>1, <2>2
<1>9. CASE topic \in T
  <2>1. new = [nodes |-> less, order |-> order]
    BY <1>5, <1>9 DEF RM!Dropped
  <2>2. order \in Seq(Paths)
    BY <1>1, SelectedPaths
  <2> HIDE DEF T, D, order
  <2>3. \A p \in RM!PathOf(topic) : p \in D /\ topic \in PathsBelow(T, p) /\ map.nodes[p].count # 0
    <3> TAKE p \in RM!PathOf(topic)
    <3>1. p \in Prefixes(topic) /\ p # RM!Root
      BY <1>2
    <3>2. p \in D /\ topic \in PathsBelow(T, p)
      BY <1>2, <1>9, <3>1 DEF PathsBelow
    <3>3. Cardinality(PathsBelow(T, p)) # 0
      BY <1>1, <3>2, PathsCounted
    <3> QED BY <1>3, <3>1, <3>2, <3>3
  <2>4. \A p \in D \ gone :
            /\ less[p] \in NodeValues
            /\ less[p].count = map.nodes[p].count - (IF p \in RM!PathOf(topic) THEN 1 ELSE 0)
            /\ less[p].value = IF p = topic THEN {} ELSE map.nodes[p].value
    <3> TAKE p \in D \ gone
    <3>1. less[p] = [count |-> map.nodes[p].count - (IF p \in RM!PathOf(topic) THEN 1 ELSE 0),
                     value |-> IF p = topic THEN {} ELSE map.nodes[p].value]
      BY DEF RM!Empty
    <3> HIDE DEF less, gone
    <3>2. map.nodes[p].count - (IF p \in RM!PathOf(topic) THEN 1 ELSE 0) \in Nat
      BY <1>3, <2>3
    <3> QED BY <1>3, <3>1, <3>2 DEF NodeValues
  <2>5. DOMAIN less = D \ gone /\ less \in [D \ gone -> NodeValues]
    BY <2>4
  <2> HIDE DEF less
  <2>6. /\ new.nodes = less /\ new.order = order
        /\ new = [nodes |-> new.nodes, order |-> new.order]
    <3> HIDE DEF new
    <3> QED BY <2>1
  <2>7. \A p : p \in D \ gone <=> p = RM!Root \/ \E t \in T \ {topic} : p \in Prefixes(t)
    <3>1. ASSUME NEW p \in D, p # RM!Root
          PROVE  p \in gone <=> ~\E t \in T \ {topic} : p \in Prefixes(t)
      <4>1. PathsBelow(T \ {topic}, p) = {} <=> ~\E t \in T \ {topic} : p \in Prefixes(t)
        BY DEF PathsBelow
      <4>2. Cardinality(PathsBelow(T \ {topic}, p)) = 0 <=> PathsBelow(T \ {topic}, p) = {}
        BY <1>7, PathsCounted
      <4>3. CASE p \in Prefixes(topic)
        <5>1. Cardinality(PathsBelow(T \ {topic}, p)) = Cardinality(PathsBelow(T, p)) - 1
          BY <1>1, <1>9, <4>3, PathsCounted
        <5>2. Cardinality(PathsBelow(T, p)) \in Nat
          BY <1>1, PathsCounted
        <5>3. p \in gone <=> map.nodes[p].count = 1
          BY <1>2, <3>1, <4>3
        <5>4. map.nodes[p].count = Cardinality(PathsBelow(T, p))
          BY <1>3, <3>1
        <5>5. Cardinality(PathsBelow(T \ {topic}, p)) = 0 <=> map.nodes[p].count = 1
          BY <5>1, <5>2, <5>4
        <5> HIDE DEF gone
        <5> QED BY <4>1, <4>2, <5>3, <5>5
      <4>4. CASE p \notin Prefixes(topic)
        <5>1. p \notin gone
          BY <1>2, <4>4
        <5>2. \E t \in T : p \in Prefixes(t)
          BY <1>2, <3>1
        <5> QED BY <4>4, <5>1, <5>2
      <4> QED BY <4>3, <4>4
    <3>2. RM!Root \notin gone
      BY <1>2
    <3>3. \A p : (\E t \in T \ {topic} : p \in Prefixes(t)) => p \in D
      BY <1>2
    <3> HIDE DEF gone
    <3> QED BY <1>2, <3>1, <3>2, <3>3
  <2>8. DOMAIN less = {RM!Root} \union UNION {Prefixes(t) : t \in T \ {topic}}
    BY <2>5, <2>7
  <2>9. ASSUME NEW p \in DOMAIN less
        PROVE  /\ p # RM!Root => less[p].count = Cardinality(PathsBelow(T \ {topic}, p))
               /\ less[p].value = IF p \in T \ {topic} THEN lt2[p] ELSE {}
    <3>1. /\ p \in D
          /\ less[p].count = map.nodes[p].count - (IF p \in RM!PathOf(topic) THEN 1 ELSE 0)
          /\ less[p].value = IF p = topic THEN {} ELSE map.nodes[p].value
      BY <2>4, <2>5
    <3>2. less[p].value = IF p \in T \ {topic} THEN lt2[p] ELSE {}
      BY <1>3, <1>6, <3>1
    <3>3. ASSUME p # RM!Root
          PROVE  less[p].count = Cardinality(PathsBelow(T \ {topic}, p))
      <4>1. map.nodes[p].count = Cardinality(PathsBelow(T, p)) /\ map.nodes[p].count \in Nat
        BY <1>3, <3>1, <3>3
      <4>2. CASE p \in Prefixes(topic)
        <5>1. Cardinality(PathsBelow(T \ {topic}, p)) = Cardinality(PathsBelow(T, p)) - 1
          BY <1>1, <1>9, <4>2, PathsCounted
        <5> QED BY <1>2, <3>1, <3>3, <4>1, <4>2, <5>1
      <4>3. CASE p \notin Prefixes(topic)
        <5>1. PathsBelow(T \ {topic}, p) = PathsBelow(T, p)
          BY <1>1, <4>3, PathsCounted
        <5> QED BY <1>2, <3>1, <4>1, <4>3, <5>1
      <4> QED BY <4>2, <4>3
    <3> QED BY <3>2, <3>3
  <2>10. NodesOf(less, T \ {topic}, lt2)
    BY <2>5, <2>8, <2>9 DEF NodesOf
  <2> HIDE DEF new
  <2> QED BY <1>6, <1>7, <2>2, <2>6, <2>10 DEF MapOf, new
<1> QED BY <1>8, <1>9

RetainedInv == MapOf(retains, latest)

LEMMA RetainedStarts == Init => RetainedInv
<1> SUFFICES ASSUME Init PROVE RetainedInv
  OBVIOUS
<1>1. retains = RM!NoTopics /\ latest = [t \in Topics |-> {}]
  BY DEF Init
<1>2. latest \in [Topics -> SUBSET Contents] /\ Holds(latest) = {}
  BY <1>1 DEF Holds
<1>3. /\ retains.nodes = [p \in {RM!Root} |-> [count |-> 1, value |-> {}]]
      /\ retains.order = <<>>
      /\ retains = [nodes |-> retains.nodes, order |-> retains.order]
  BY <1>1 DEF RM!NoTopics, RM!Node, RM!Empty
<1>4. retains.order \in Seq(Paths)
  BY <1>3, EmptySeq
<1>5. NodesOf(retains.nodes, {}, latest)
  <2>1. [count |-> 1, value |-> {}] \in NodeValues
    BY DEF NodeValues
  <2>2. DOMAIN retains.nodes = {RM!Root} /\ retains.nodes \in [{RM!Root} -> NodeValues]
        /\ retains.nodes[RM!Root].value = {}
    BY <1>3, <2>1
  <2> QED BY <2>2 DEF NodesOf
<1> QED BY <1>2, <1>3, <1>4, <1>5, FS_EmptySet DEF RetainedInv, MapOf

LEMMA RetainedStays ==
    ASSUME RetainedInv, [Next]_vars
    PROVE  RetainedInv'
<1>0. MapOf(retains, latest)
  BY DEF RetainedInv
<1> SUFFICES MapOf(retains', latest')
  BY DEF RetainedInv
<1>1. ASSUME NEW c, NEW t \in Topics, NEW retain,
             NEW content \in {{}} \union {{v} : v \in Contents}, Publish(c, t, retain, content)
      PROVE  MapOf(retains', latest')
  <2>1. CASE UNCHANGED <<retains, latest>>
    BY <1>0, <2>1
  <2>2. CASE /\ retains' = RM!Dropped(retains, t)
             /\ latest' = [latest EXCEPT ![t] = {}]
    BY <1>0, <2>2, DroppedMap
  <2>3. ASSUME NEW v \in Contents, retains' = RM!Retained(retains, t, v),
               latest' = [latest EXCEPT ![t] = {v}]
        PROVE  MapOf(retains', latest')
    BY <1>0, <2>3, RetainedMap
  <2>4. \A v \in content : v \in Contents
    OBVIOUS
  <2>5. \/ UNCHANGED <<retains, latest>>
        \/ /\ retains' = RM!Dropped(retains, t)
           /\ latest' = [latest EXCEPT ![t] = {}]
        \/ \E v \in content : /\ retains' = RM!Retained(retains, t, v)
                              /\ latest' = [latest EXCEPT ![t] = {v}]
    BY <1>1 DEF Publish
  <2> QED BY <2>1, <2>2, <2>3, <2>4, <2>5
<1>2. ASSUME NEW t \in Topics, RetainedExpires(t)
      PROVE  MapOf(retains', latest')
  <2>1. retains' = RM!Dropped(retains, t) /\ latest' = [latest EXCEPT ![t] = {}]
    BY <1>2 DEF RetainedExpires
  <2> QED BY <1>0, <2>1, DroppedMap
<1>3. CASE UNCHANGED <<retains, latest>>
  BY <1>0, <1>3
<1>4. CASE \E c \in Clients, entries \in EntryLists : Subscribe(c, entries)
  BY <1>3, <1>4 DEF Subscribe
<1>5. CASE \E c \in Clients, share \in Shares \union {NotShared}, f \in Filters :
                Unsubscribe(c, share, f)
  BY <1>3, <1>5 DEF Unsubscribe
<1>6. CASE \E c \in Clients : Clean(c)
  BY <1>3, <1>6 DEF Clean
<1>7. CASE UNCHANGED vars
  BY <1>3, <1>7 DEF vars
<1> QED BY <1>1, <1>2, <1>4, <1>5, <1>6, <1>7 DEF Next
-----------------------------------------------------------------------------
(* Retained messages: the search *)

SearchedMap(map) ==
    /\ map.order \in Seq(Paths)
    /\ \A p \in DOMAIN map.nodes : p \in Paths /\ Prefixes(p) \subseteq DOMAIN map.nodes
    /\ RM!Root \in DOMAIN map.nodes

StepOf(map, p, level) ==
    IF level = RM!Plus THEN RM!PlusChildren(map, p) ELSE RM!NamedChild(map, p, level)

(* q is p and a level more, which level leads to. *)
IsStep(map, p, level, q) ==
    /\ q \in Paths /\ Len(q) = Len(p) + 1 /\ \A j \in 1..Len(p) : q[j] = p[j]
    /\ level # SM!Plus => q[Len(p) + 1] = level
    /\ level = SM!Plus /\ p = <<>> => q[1] \notin SystemLevels

LEMMA StepIs ==
    ASSUME NEW map, SearchedMap(map), NEW p \in Paths, NEW level \in Levels
    PROVE  /\ StepOf(map, p, level) \in Seq(Paths)
           /\ \A k \in DOMAIN StepOf(map, p, level) :
                IsStep(map, p, level, StepOf(map, p, level)[k])
           /\ level # SM!Plus =>
                StepOf(map, p, level) = IF Append(p, level) \in DOMAIN map.nodes
                                        THEN <<Append(p, level)>> ELSE <<>>
<1>1. RM!Plus = SM!Plus /\ RM!Root = <<>> /\ Len(p) \in Nat
  BY PathOfIs, LenProperties DEF RM!Plus, SM!Plus, Paths
<1>2. CASE level # SM!Plus
  <2> DEFINE q == Append(p, level)
  <2>1. StepOf(map, p, level) = IF q \in DOMAIN map.nodes THEN <<q>> ELSE <<>>
    BY <1>1, <1>2 DEF StepOf, RM!NamedChild
  <2>2. /\ q \in Paths /\ Len(q) = Len(p) + 1 /\ \A j \in 1..Len(p) : q[j] = p[j]
        /\ q[Len(p) + 1] = level
    BY AppendProperties DEF Paths
  <2> HIDE DEF q
  <2>3. IsStep(map, p, level, q)
    BY <1>2, <2>2 DEF IsStep
  <2>4. /\ <<q>> \in Seq(Paths) /\ DOMAIN <<q>> = 1..1 /\ <<q>>[1] = q
        /\ <<>> \in Seq(Paths) /\ DOMAIN <<>> = 1..0
    <3>1. <<>> \in Seq(Paths) /\ Len(<<>>) = 0
      BY EmptySeq
    <3>2. DOMAIN <<>> = 1..0
      BY <3>1, LenProperties
    <3> QED BY <2>2, <3>1, <3>2
  <2>5. CASE q \in DOMAIN map.nodes
    <3>1. StepOf(map, p, level) = <<q>>
      BY <2>1, <2>5
    <3>2. \A k \in 1..1 : <<q>>[k] = q
      BY <2>4
    <3> QED BY <1>2, <2>3, <2>4, <2>5, <3>1, <3>2 DEF q
  <2>6. CASE q \notin DOMAIN map.nodes
    <3>1. StepOf(map, p, level) = <<>>
      BY <2>1, <2>6
    <3>2. \A k \in DOMAIN StepOf(map, p, level) : FALSE
      BY <2>4, <3>1
    <3> QED BY <1>2, <2>4, <2>6, <3>1, <3>2 DEF q
  <2> QED BY <2>5, <2>6
<1>3. CASE level = SM!Plus
  <2> DEFINE P == {i \in DOMAIN map.order : RM!IsChild(map.order[i], p)}
             all == RM!ChildrenOf(map, p)
             system == {i \in DOMAIN all : RM!IsSystem(all[i])}
             Q == {i \in DOMAIN all : \A j \in system : i < j}
  <2>1. /\ all \in Seq(Paths)
        /\ \A k \in DOMAIN all : RM!IsChild(all[k], p)
    <3>1. all = RM!Selected(map.order, P)
      BY DEF RM!ChildrenOf
    <3>2. map.order \in Seq(Paths) /\ P \in SUBSET DOMAIN map.order
      BY DEF SearchedMap
    <3> HIDE DEF P, all
    <3>3. /\ all \in Seq(Paths)
          /\ \A k \in DOMAIN all : \E i \in P : all[k] = map.order[i]
      BY <3>1, <3>2, SelectedPaths
    <3> QED BY <3>3 DEF P
  <2>2. StepOf(map, p, level) = RM!Selected(all, Q)
    BY <1>1, <1>3 DEF StepOf, RM!PlusChildren
  <2> HIDE DEF all
  <2>3. \A i \in Q : i \in DOMAIN all /\ ~RM!IsSystem(all[i])
    <3>1. DOMAIN all \subseteq Int
      BY <2>1, LenProperties
    <3> QED BY <3>1
  <2> HIDE DEF Q
  <2>4. Q \in SUBSET DOMAIN all
    BY <2>3
  <2>5. /\ StepOf(map, p, level) \in Seq(Paths)
        /\ \A k \in DOMAIN StepOf(map, p, level) :
            \E i \in Q : StepOf(map, p, level)[k] = all[i]
    BY <2>1, <2>2, <2>4, SelectedPaths
  <2>6. ASSUME NEW i \in Q PROVE IsStep(map, p, level, all[i])
    <3>1. /\ all[i] \in Paths /\ Len(all[i]) = Len(p) + 1 /\ IsPrefix(p, all[i])
          /\ ~RM!IsSystem(all[i])
      BY <2>1, <2>3, SequencesOfMap, LenProperties DEF RM!IsChild
    <3>2. \A j \in 1..Len(p) : all[i][j] = p[j]
      BY <3>1, PrefixIs
    <3>3. p = <<>> => Len(all[i]) = 1
      BY <1>1, <3>1, EmptySeq
    <3>4. p = <<>> => all[i][1] \notin SystemLevels
      BY <3>1, <3>3 DEF RM!IsSystem
    <3> QED BY <1>3, <3>1, <3>2, <3>4 DEF IsStep
  <2> QED BY <1>3, <2>5, <2>6
<1> QED BY <1>2, <1>3

LEMMA FollowedRec ==
    ASSUME NEW map, SearchedMap(map), NEW entries \in Seq(Paths), NEW level \in Levels,
           NEW R, R = RM!Followed(map, entries, level)
    PROVE  /\ R[0] = <<>>
           /\ \A k \in 0..Len(entries) : R[k] \in Seq(Paths)
           /\ \A k \in 1..Len(entries) : R[k] = R[k - 1] \o StepOf(map, entries[k], level)
<1> DEFINE n == Len(entries)
           V == Seq(Paths)
           F == [k \in 1..n |-> [s \in V |-> s \o StepOf(map, entries[k], level)]]
           Is(g) == g = [k \in 0..n |-> IF k = 0 THEN <<>>
                                        ELSE g[k - 1] \o StepOf(map, entries[k], level)]
<1>1. n \in Nat /\ \A k \in 1..n : entries[k] \in Paths
  BY LenProperties
<1>2. <<>> \in V
  BY EmptySeq
<1>3. \A s \in V, k \in 1..n : s \o StepOf(map, entries[k], level) \in V
  <2> TAKE s \in V, k \in 1..n
  <2>1. StepOf(map, entries[k], level) \in V
    BY <1>1, StepIs
  <2> QED BY <2>1, ConcatProperties
<1> HIDE DEF V
<1>4. F \in [1..n -> [V -> V]]
  BY <1>1, <1>3
<1> HIDE DEF n
<1>5. PICK g \in [0..n -> V] : g[0] = <<>> /\ \A k \in 1..n : g[k] = F[k][g[k - 1]]
  <2> HIDE DEF F, Is
  <2>1. PICK g : IsRecursive(g, n, V, <<>>, F)
    BY <1>1, <1>2, <1>4, Recursion
  <2> QED BY <2>1 DEF IsRecursive
<1>6. Is(g)
  <2>1. \A k \in 0..n : k # 0 => k \in 1..n /\ g[k - 1] \in V
    BY <1>1
  <2>2. \A k \in 0..n : k # 0 => F[k][g[k - 1]] = g[k - 1] \o StepOf(map, entries[k], level)
    BY <2>1
  <2>3. \A k \in 0..n : g[k] = IF k = 0 THEN <<>> ELSE g[k - 1] \o StepOf(map, entries[k], level)
    <3> HIDE DEF F
    <3> QED BY <1>1, <1>5, <2>1, <2>2
  <2> QED BY <2>3
<1>7. R = CHOOSE fn : Is(fn)
  BY DEF RM!Followed, StepOf, n
<1> HIDE DEF Is
<1>8. Is(R)
  BY <1>6, <1>7
<1>9. R = [k \in 0..n |-> IF k = 0 THEN <<>> ELSE R[k - 1] \o StepOf(map, entries[k], level)]
  BY <1>8 DEF Is
<1> DEFINE K == {k \in 0..n : R[k] \in V}
<1>10. R[0] = <<>> /\ 0 \in K
  BY <1>1, <1>2, <1>9
<1>11. \A k \in 1..n : R[k] = R[k - 1] \o StepOf(map, entries[k], level)
  BY <1>1, <1>9
<1>12. ASSUME NEW k \in 0..(n - 1), k \in K PROVE k + 1 \in K
  <2>1. k + 1 \in 1..n /\ k + 1 \in 0..n /\ (k + 1) - 1 = k
    BY <1>1
  <2>2. R[k + 1] = R[k] \o StepOf(map, entries[k + 1], level)
    BY <1>11, <2>1
  <2> QED BY <1>3, <1>12, <2>1, <2>2
<1> HIDE DEF K
<1>13. 0..n \subseteq K
  BY <1>1, <1>10, <1>12, Induction
<1> QED BY <1>10, <1>11, <1>13 DEF K, V, n

(* Every node found on a level is one level below one of the level before. *)
LeadsTo(map, entries, level, end) ==
    /\ end \in Seq(Paths)
    /\ \A i \in DOMAIN end : \E k \in DOMAIN entries : IsStep(map, entries[k], level, end[i])
    /\ entries = <<>> => end = <<>>
    /\ \A p \in Paths : entries = <<p>> => end = StepOf(map, p, level)

LEMMA FollowedAre ==
    ASSUME NEW map, SearchedMap(map), NEW entries \in Seq(Paths), NEW level \in Levels,
           NEW end, end = RM!Followed(map, entries, level)[Len(entries)]
    PROVE  LeadsTo(map, entries, level, end)
<1> DEFINE n == Len(entries)
           R == RM!Followed(map, entries, level)
           From(s, m) == \A i \in DOMAIN s : \E k \in 1..m : IsStep(map, entries[k], level, s[i])
           K == {k \in 0..n : From(R[k], k)}
<1>1. /\ n \in Nat /\ DOMAIN entries = 1..n /\ \A k \in 1..n : entries[k] \in Paths
      /\ <<>> \in Seq(Paths) /\ DOMAIN <<>> = {} /\ Len(<<>>) = 0
  BY LenProperties, EmptySeq
<1>2. /\ R[0] = <<>>
      /\ \A k \in 0..n : R[k] \in Seq(Paths)
      /\ \A k \in 1..n : R[k] = R[k - 1] \o StepOf(map, entries[k], level)
  BY FollowedRec
<1> HIDE DEF R, n
<1>3. 0 \in K
  BY <1>1, <1>2
<1>4. ASSUME NEW k \in 0..(n - 1), k \in K PROVE k + 1 \in K
  <2> DEFINE s == StepOf(map, entries[k + 1], level)
  <2>1. k + 1 \in 1..n /\ k + 1 \in 0..n /\ (k + 1) - 1 = k /\ k \in 0..n
        /\ 1..k \subseteq 1..(k + 1) /\ k + 1 \in 1..(k + 1)
    BY <1>1
  <2>2. R[k + 1] = R[k] \o s
    BY <1>2, <2>1
  <2>3. R[k] \in Seq(Paths) /\ entries[k + 1] \in Paths
    BY <1>1, <1>2, <2>1
  <2>4. s \in Seq(Paths) /\ \A i \in DOMAIN s : IsStep(map, entries[k + 1], level, s[i])
    BY <2>3, StepIs
  <2> HIDE DEF s
  <2>5. \A i \in DOMAIN (R[k] \o s) : \/ i \in DOMAIN R[k] /\ (R[k] \o s)[i] = R[k][i]
                                      \/ /\ i - Len(R[k]) \in DOMAIN s
                                         /\ (R[k] \o s)[i] = s[i - Len(R[k])]
    BY <2>3, <2>4, AfterConcat
  <2>6. From(R[k], k)
    BY <1>4
  <2>7. From(R[k + 1], k + 1)
    <3> SUFFICES ASSUME NEW i \in DOMAIN (R[k] \o s)
                 PROVE  \E m \in 1..(k + 1) : IsStep(map, entries[m], level, (R[k] \o s)[i])
      BY <2>2
    <3>1. CASE i \in DOMAIN R[k] /\ (R[k] \o s)[i] = R[k][i]
      BY <2>1, <2>6, <3>1
    <3>2. CASE i - Len(R[k]) \in DOMAIN s /\ (R[k] \o s)[i] = s[i - Len(R[k])]
      BY <2>1, <2>4, <3>2
    <3> QED BY <2>5, <3>1, <3>2
  <2> QED BY <2>1, <2>7
<1> HIDE DEF K
<1>5. 0..n \subseteq K
  BY <1>1, <1>3, <1>4, Induction
<1>6. n \in K /\ end = R[n]
  BY <1>1, <1>5 DEF R, n
<1>7. From(end, n)
  BY <1>6 DEF K
<1>8. entries = <<>> => end = <<>>
  BY <1>1, <1>2, <1>6 DEF n
<1>9. ASSUME NEW p \in Paths, entries = <<p>> PROVE end = StepOf(map, p, level)
  <2>1. n = 1 /\ entries[1] = p
    BY <1>9 DEF n
  <2>2. R[1] = R[0] \o StepOf(map, p, level)
    <3>1. 1 \in 1..n /\ 1 - 1 = 0
      BY <2>1
    <3>2. R[1] = R[1 - 1] \o StepOf(map, entries[1], level)
      BY <1>2, <3>1
    <3> QED BY <2>1, <3>1, <3>2
  <2>3. StepOf(map, p, level) \in Seq(Paths)
    BY StepIs
  <2>4. R[1] = StepOf(map, p, level)
    BY <1>2, <2>2, <2>3, ConcatEmptySeq
  <2> QED BY <1>6, <2>1, <2>4
<1>10. end \in Seq(Paths)
  BY <1>1, <1>2, <1>6
<1> QED BY <1>1, <1>7, <1>8, <1>9, <1>10 DEF LeadsTo

LEMMA ReachedRec ==
    ASSUME NEW map, SearchedMap(map), NEW filter \in Paths,
           NEW R, R = RM!Reached(map, filter)
    PROVE  /\ R[0] = <<<<>>>>
           /\ \A i \in 0..Len(filter) : R[i] \in Seq(Paths)
           /\ \A i \in 1..Len(filter) :
                R[i] = RM!Followed(map, R[i - 1], filter[i])[Len(R[i - 1])]
<1> DEFINE n == Len(filter)
           V == Seq(Paths)
           After(s, i) == RM!Followed(map, s, filter[i])[Len(s)]
           F == [i \in 1..n |-> [s \in V |-> After(s, i)]]
           Is(g) == g = [i \in 0..n |-> IF i = 0 THEN <<RM!Root>> ELSE After(g[i - 1], i)]
<1>1. n \in Nat /\ \A i \in 1..n : filter[i] \in Levels
  BY LenProperties DEF Paths
<1>2. <<RM!Root>> \in V /\ RM!Root = <<>>
  <2>1. RM!Root = <<>> /\ RM!Root \in Paths
    BY EmptySeq, PathOfIs DEF Paths
  <2> HIDE DEF V
  <2> QED BY <2>1 DEF V
<1>3. \A s \in V, i \in 1..n : After(s, i) \in V
  <2> TAKE s \in V, i \in 1..n
  <2>1. LeadsTo(map, s, filter[i], After(s, i))
    BY <1>1, FollowedAre
  <2> QED BY <2>1 DEF LeadsTo
<1> HIDE DEF V, After
<1>4. F \in [1..n -> [V -> V]]
  BY <1>1, <1>3
<1> HIDE DEF n
<1>5. PICK g \in [0..n -> V] : g[0] = <<RM!Root>> /\ \A i \in 1..n : g[i] = F[i][g[i - 1]]
  <2> HIDE DEF F, Is
  <2>1. PICK g : IsRecursive(g, n, V, <<RM!Root>>, F)
    BY <1>1, <1>2, <1>4, Recursion
  <2> QED BY <2>1 DEF IsRecursive
<1>6. Is(g)
  <2>1. \A i \in 0..n : i # 0 => i \in 1..n /\ g[i - 1] \in V
    BY <1>1
  <2>2. \A i \in 0..n : i # 0 => F[i][g[i - 1]] = After(g[i - 1], i)
    BY <2>1
  <2>3. \A i \in 0..n : g[i] = IF i = 0 THEN <<RM!Root>> ELSE After(g[i - 1], i)
    <3> HIDE DEF F
    <3> QED BY <1>1, <1>5, <2>1, <2>2
  <2> QED BY <2>3
<1>7. R = CHOOSE fn : Is(fn)
  BY DEF RM!Reached, After, n
<1> HIDE DEF Is
<1>8. Is(R)
  BY <1>6, <1>7
<1>9. R = [i \in 0..n |-> IF i = 0 THEN <<RM!Root>> ELSE After(R[i - 1], i)]
  BY <1>8 DEF Is
<1> DEFINE K == {i \in 0..n : R[i] \in V}
<1>10. R[0] = <<RM!Root>> /\ 0 \in K
  BY <1>1, <1>2, <1>9
<1>11. \A i \in 1..n : R[i] = After(R[i - 1], i)
  BY <1>1, <1>9
<1>12. ASSUME NEW i \in 0..(n - 1), i \in K PROVE i + 1 \in K
  <2>1. i + 1 \in 1..n /\ i + 1 \in 0..n /\ (i + 1) - 1 = i
    BY <1>1
  <2>2. R[i + 1] = After(R[i], i + 1)
    BY <1>11, <2>1
  <2> QED BY <1>3, <1>12, <2>1, <2>2
<1> HIDE DEF K
<1>13. 0..n \subseteq K
  BY <1>1, <1>10, <1>12, Induction
<1> QED BY <1>2, <1>10, <1>11, <1>13 DEF K, V, n, After

(* The path p is one that the first i levels of the filter lead to. *)
FollowsTo(f, p, i) ==
    /\ p \in Paths /\ Len(p) = i
    /\ \A j \in 1..i : f[j] = p[j] \/ f[j] = SM!Plus
    /\ i # 0 /\ f[1] = SM!Plus => p[1] \notin SystemLevels

(* The search reaches nothing else, and without + the one node there is. *)
LEMMA ReachedAre ==
    ASSUME NEW map, SearchedMap(map), NEW filter \in Paths, NEW m \in 0..Len(filter),
           NEW end, end = RM!Reached(map, filter)[m]
    PROVE  /\ end \in Seq(Paths)
           /\ \A k \in DOMAIN end : FollowsTo(filter, end[k], m)
           /\ (\A j \in 1..Len(filter) : filter[j] # SM!Plus) =>
                end = IF SubSeq(filter, 1, m) \in DOMAIN map.nodes
                      THEN <<SubSeq(filter, 1, m)>> ELSE <<>>
<1> DEFINE n == Len(filter)
           R == RM!Reached(map, filter)
           Known == DOMAIN map.nodes
           Follow(s, i) == \A k \in DOMAIN s : FollowsTo(filter, s[k], i)
           AtName(s, i) == s = IF SubSeq(filter, 1, i) \in Known
                               THEN <<SubSeq(filter, 1, i)>> ELSE <<>>
           NoPlus == \A j \in 1..n : filter[j] # SM!Plus
           K == {i \in 0..n : Follow(R[i], i) /\ (NoPlus => AtName(R[i], i))}
<1>1. /\ n \in Nat /\ \A i \in 1..n : filter[i] \in Levels
      /\ <<>> \in Paths /\ Len(<<>>) = 0 /\ RM!Root = <<>> /\ <<>> \in Known
  BY LenProperties, EmptySeq, PathOfIs DEF Paths, SearchedMap
<1>2. \A i \in 0..n :
        /\ SubSeq(filter, 1, i) \in Paths /\ Len(SubSeq(filter, 1, i)) = i
        /\ \A j \in 1..i : SubSeq(filter, 1, i)[j] = filter[j]
  BY <1>1, SubSeqProperties DEF Paths
<1>3. /\ R[0] = <<<<>>>>
      /\ \A i \in 0..n : R[i] \in Seq(Paths)
      /\ \A i \in 1..n : R[i] = RM!Followed(map, R[i - 1], filter[i])[Len(R[i - 1])]
  BY ReachedRec
<1> HIDE DEF R, n
<1>4. 0 \in K
  <2>1. 0 \in 0..n
    BY <1>1
  <2>2. FollowsTo(filter, <<>>, 0)
    BY <1>1 DEF FollowsTo
  <2>3. Follow(R[0], 0)
    BY <1>3, <2>2
  <2>4. SubSeq(filter, 1, 0) = <<>>
    BY <1>2, <2>1, EmptySeq DEF Paths
  <2> QED BY <1>1, <1>3, <2>1, <2>3, <2>4
<1>5. ASSUME NEW i \in 0..(n - 1), i \in K PROVE i + 1 \in K
  <2>1. i + 1 \in 1..n /\ i + 1 \in 0..n /\ (i + 1) - 1 = i /\ i \in 0..n /\ i \in Nat
        /\ filter[i + 1] \in Levels /\ 1 \in 1..n
    BY <1>1
  <2>2. /\ R[i] \in Seq(Paths) /\ R[i + 1] \in Seq(Paths)
        /\ R[i + 1] = RM!Followed(map, R[i], filter[i + 1])[Len(R[i])]
    BY <1>3, <2>1
  <2>3. /\ \A k \in DOMAIN R[i + 1] :
            \E l \in DOMAIN R[i] : IsStep(map, R[i][l], filter[i + 1], R[i + 1][k])
        /\ R[i] = <<>> => R[i + 1] = <<>>
        /\ \A p \in Paths : R[i] = <<p>> => R[i + 1] = StepOf(map, p, filter[i + 1])
    <3> DEFINE s == R[i]
               e == R[i + 1]
               level == filter[i + 1]
    <3>1. s \in Seq(Paths) /\ level \in Levels /\ e = RM!Followed(map, s, level)[Len(s)]
      BY <2>1, <2>2
    <3> HIDE DEF s, e, level, K, Follow, AtName, NoPlus
    <3>2. LeadsTo(map, s, level, e)
      BY <3>1, FollowedAre
    <3>3. /\ \A k \in DOMAIN e : \E l \in DOMAIN s : IsStep(map, s[l], level, e[k])
          /\ s = <<>> => e = <<>>
          /\ \A p \in Paths : s = <<p>> => e = StepOf(map, p, level)
      BY <3>2 DEF LeadsTo
    <3> QED BY <3>3 DEF s, e, level
  <2>4. Follow(R[i], i)
    BY <1>5
  <2>5. Follow(R[i + 1], i + 1)
    <3> SUFFICES ASSUME NEW k \in DOMAIN R[i + 1]
                 PROVE  FollowsTo(filter, R[i + 1][k], i + 1)
      OBVIOUS
    <3> DEFINE q == R[i + 1][k]
    <3>1. PICK l \in DOMAIN R[i] : IsStep(map, R[i][l], filter[i + 1], q)
      BY <2>3
    <3> DEFINE p == R[i][l]
    <3>2. FollowsTo(filter, p, i)
      BY <2>4
    <3> HIDE DEF p, q
    <3>3. /\ p \in Paths /\ Len(p) = i
          /\ \A j \in 1..i : filter[j] = p[j] \/ filter[j] = SM!Plus
          /\ i # 0 /\ filter[1] = SM!Plus => p[1] \notin SystemLevels
      BY <3>2 DEF FollowsTo
    <3>4. /\ q \in Paths /\ Len(q) = i + 1 /\ \A j \in 1..i : q[j] = p[j]
          /\ filter[i + 1] # SM!Plus => q[i + 1] = filter[i + 1]
          /\ filter[i + 1] = SM!Plus /\ p = <<>> => q[1] \notin SystemLevels
      BY <3>1, <3>3 DEF IsStep, p
    <3>5. \A j \in 1..(i + 1) : filter[j] = q[j] \/ filter[j] = SM!Plus
      <4> SUFFICES ASSUME NEW j \in 1..(i + 1) PROVE filter[j] = q[j] \/ filter[j] = SM!Plus
        OBVIOUS
      <4>1. j \in 1..i \/ j = i + 1
        BY <2>1
      <4> QED BY <3>3, <3>4, <4>1
    <3>6. filter[1] = SM!Plus => q[1] \notin SystemLevels
      <4>1. CASE i = 0
        <5>1. p = <<>>
          BY <3>3, <4>1, EmptySeq DEF Paths
        <5> QED BY <3>4, <4>1, <5>1
      <4>2. CASE i # 0
        <5>1. 1 \in 1..i
          BY <2>1, <4>2
        <5> QED BY <3>3, <3>4, <4>2, <5>1
      <4> QED BY <4>1, <4>2
    <3>7. FollowsTo(filter, q, i + 1)
      BY <3>4, <3>5, <3>6 DEF FollowsTo
    <3> QED BY <3>7 DEF q
  <2>6. ASSUME NoPlus PROVE AtName(R[i + 1], i + 1)
    <3> DEFINE p == SubSeq(filter, 1, i)
               q == SubSeq(filter, 1, i + 1)
    <3>1. filter[i + 1] # SM!Plus /\ p \in Paths /\ q \in Paths
      BY <1>2, <2>1, <2>6
    <3>2. q = Append(p, filter[i + 1]) /\ p \in Prefixes(q)
      <4>1. /\ Append(p, filter[i + 1]) \in Paths /\ Len(Append(p, filter[i + 1])) = i + 1
            /\ \A j \in 1..i : Append(p, filter[i + 1])[j] = p[j]
            /\ Append(p, filter[i + 1])[i + 1] = filter[i + 1]
        BY <1>2, <2>1, AppendProperties DEF Paths
      <4>2. Len(p) = i /\ Len(q) = i + 1
            /\ (\A j \in 1..i : p[j] = filter[j]) /\ (\A j \in 1..(i + 1) : q[j] = filter[j])
        BY <1>2, <2>1
      <4>3. \A j \in 1..(i + 1) : j \in 1..i \/ j = i + 1
        BY <2>1
      <4>4. \A j \in 1..i : j \in 1..(i + 1)
        BY <2>1
      <4> HIDE DEF p, q
      <4>5. \A j \in 1..(i + 1) : q[j] = Append(p, filter[i + 1])[j]
        BY <4>1, <4>2, <4>3
      <4>6. q = Append(p, filter[i + 1])
        BY <3>1, <4>1, <4>2, <4>5, SeqEqual DEF Paths
      <4>7. IsPrefix(p, q)
        BY <2>1, <3>1, <4>2, <4>4, PrefixIs
      <4> QED BY <3>1, <4>6, <4>7, PrefixIs
    <3>3. q \in Known => p \in Known
      BY <3>2 DEF SearchedMap
    <3>4. AtName(R[i], i)
      BY <1>5, <2>6
    <3> HIDE DEF p, q
    <3>5. R[i] = IF p \in Known THEN <<p>> ELSE <<>>
      BY <3>4 DEF p
    <3>6. CASE p \in Known
      <4>1. R[i + 1] = StepOf(map, p, filter[i + 1])
        BY <2>3, <3>1, <3>5, <3>6
      <4>2. R[i + 1] = IF q \in Known THEN <<q>> ELSE <<>>
        BY <2>1, <3>1, <3>2, <4>1, StepIs
      <4> QED BY <4>2 DEF q
    <3>7. CASE p \notin Known
      <4>1. R[i + 1] = <<>> /\ q \notin Known
        BY <2>3, <3>3, <3>5, <3>7
      <4> QED BY <4>1 DEF q
    <3> QED BY <3>6, <3>7
  <2> HIDE DEF NoPlus
  <2> QED BY <2>1, <2>5, <2>6
<1> HIDE DEF K
<1>6. 0..n \subseteq K
  BY <1>1, <1>4, <1>5, Induction
<1>7. m \in K /\ end = R[m] /\ m \in 0..n
  BY <1>6 DEF R, n
<1>8. Follow(end, m) /\ (NoPlus => AtName(end, m))
  BY <1>7 DEF K
<1> QED BY <1>3, <1>7, <1>8 DEF n

LEMMA HoldingIs ==
    ASSUME NEW lt, NEW map, MapOf(map, lt)
    PROVE  /\ SearchedMap(map)
           /\ RM!Holding(map) = Holds(lt)
           /\ Holds(lt) \subseteq Topics
           /\ \A t \in Holds(lt) : Prefixes(t) \subseteq DOMAIN map.nodes
<1> DEFINE T == Holds(lt)
<1>1. /\ NodesOf(map.nodes, T, lt) /\ map.order \in Seq(Paths) /\ T \in SUBSET Topics
      /\ \A t \in T : lt[t] # {}
  BY DEF MapOf, Holds
<1> HIDE DEF T
<1>2. /\ RM!Root \in DOMAIN map.nodes
      /\ \A p : p \in DOMAIN map.nodes <=> p = RM!Root \/ \E t \in T : p \in Prefixes(t)
      /\ \A p \in DOMAIN map.nodes : Prefixes(p) \subseteq DOMAIN map.nodes /\ p \in Paths
  BY <1>1, NodesAre
<1>3. SearchedMap(map)
  BY <1>1, <1>2 DEF SearchedMap
<1>4. \A t \in T : Prefixes(t) \subseteq DOMAIN map.nodes /\ t \in DOMAIN map.nodes
  BY <1>1, <1>2, TopicsArePaths, PrefixesOf
<1>5. \A p \in DOMAIN map.nodes : map.nodes[p].value = IF p \in T THEN lt[p] ELSE {}
  BY <1>1 DEF NodesOf
<1>6. \A p \in DOMAIN map.nodes : map.nodes[p].value # {} <=> p \in T
  BY <1>1, <1>5
<1>7. RM!Holding(map) = T
  BY <1>4, <1>6 DEF RM!Holding, RM!Empty
<1> QED BY <1>1, <1>3, <1>4, <1>7 DEF T

(* The search finds topics that hold a message and match; without + all of them. *)
LEMMA RetainedFoundIs ==
    ASSUME NEW lt, NEW map, MapOf(map, lt), NEW f \in Filters
    PROVE  /\ \A t \in RM!RetainedFound(map, f) : t \in Holds(lt) /\ MatchesRetained(f, t)
           /\ SM!Plus \notin ToSet(f) =>
                \A t \in Holds(lt) : MatchesRetained(f, t) => t \in RM!RetainedFound(map, f)
<1> DEFINE n == Len(f)
           T == Holds(lt)
           ends == IF f[n] = RM!Hash THEN n - 1 ELSE n
           reached == RM!Reached(map, f)[ends]
           found == RM!RetainedFound(map, f)
           below == IF f[n] = RM!Hash /\ reached # <<>> THEN RM!Below(map, Head(reached)) ELSE {}
<1>1. /\ f \in Paths /\ f # <<>> /\ n \in Nat /\ n # 0 /\ ends \in 0..n /\ n \in 1..n
      /\ \A i \in 1..(n - 1) : f[i] # SM!Hash
      /\ \A i \in 1..n : f[i] \in Levels
      /\ RM!Hash = SM!Hash /\ RM!Root = <<>> /\ SM!Plus # SM!Hash
  BY TopicsAssumption, FiltersArePaths, EmptySeq, LenProperties, PathOfIs
     DEF Paths, RM!Hash, SM!Hash, SM!Plus
<1>2. /\ SearchedMap(map) /\ RM!Holding(map) = T /\ T \subseteq Topics
      /\ \A t \in T : Prefixes(t) \subseteq DOMAIN map.nodes
      /\ \A t \in T : t \in Paths /\ t # <<>> /\ Len(t) \in Nat /\ Len(t) # 0
  BY HoldingIs, TopicsArePaths, EmptySeq, LenProperties DEF Paths
<1>3. found = below \union (ToSet(reached) \intersect T)
  BY <1>2, SequencesOfMap DEF RM!RetainedFound
<1> HIDE DEF found
<1>4. /\ reached \in Seq(Paths)
      /\ \A k \in DOMAIN reached : FollowsTo(f, reached[k], ends)
      /\ (\A j \in 1..n : f[j] # SM!Plus) =>
            reached = IF SubSeq(f, 1, ends) \in DOMAIN map.nodes
                      THEN <<SubSeq(f, 1, ends)>> ELSE <<>>
  BY <1>1, <1>2, ReachedAre
<1> HIDE DEF reached
<1>5. /\ SubSeq(f, 1, ends) \in Paths /\ Len(SubSeq(f, 1, ends)) = ends
      /\ \A j \in 1..ends : SubSeq(f, 1, ends)[j] = f[j]
  BY <1>1, SubSeqProperties DEF Paths
<1>6. f[n] = SM!Hash => ends = n - 1 /\ SubSeq(f, 1, ends) = Front(f)
  BY <1>1 DEF Front
<1>7. f[n] # SM!Hash => ends = n
  BY <1>1
<1>8. Last(f) = f[n]
  BY DEF Last
<1> HIDE DEF ends, n
<1>9. ASSUME NEW t \in T, t \in below PROVE SM!Matches(f, t)
  <2> DEFINE p == Head(reached)
  <2>1. f[n] = SM!Hash /\ reached # <<>> /\ t \in RM!Below(map, p)
    BY <1>1, <1>9
  <2>2. p = reached[1] /\ 1 \in DOMAIN reached /\ p \in Paths
    BY <1>4, <2>1, AfterTail
  <2>3. FollowsTo(f, p, n - 1)
    BY <1>4, <1>6, <2>1, <2>2
  <2> HIDE DEF p
  <2>4. IsStrictPrefix(p, t) /\ (p = <<>> => ~RM!IsSystem(<<t[1]>>))
    BY <1>1, <2>1, SequencesOfMap DEF RM!Below
  <2>5. IsPrefix(p, t) /\ p # t
    BY <2>4 DEF IsStrictPrefix
  <2>6. /\ Len(p) = n - 1 /\ \A j \in 1..(n - 1) : f[j] = p[j] \/ f[j] = SM!Plus
        /\ n - 1 # 0 /\ f[1] = SM!Plus => p[1] \notin SystemLevels
    BY <2>3 DEF FollowsTo
  <2>7. Len(p) <= Len(t) /\ \A j \in 1..Len(p) : p[j] = t[j]
    BY <1>2, <2>2, <2>5, PrefixIs
  <2>8. Len(t) >= n
    <3>1. Len(p) # Len(t)
      <4> SUFFICES ASSUME Len(p) = Len(t) PROVE FALSE
        OBVIOUS
      <4>1. p = t
        BY <1>2, <2>2, <2>7, SeqEqual DEF Paths
      <4> QED BY <2>5, <4>1
    <3> QED BY <1>1, <1>2, <2>6, <2>7, <3>1
  <2>9. f[1] \in {SM!Plus, SM!Hash} => t[1] \notin SystemLevels
    <3>1. CASE n = 1
      <4>1. p = <<>>
        BY <1>1, <2>2, <2>6, <3>1, EmptySeq DEF Paths
      <4>2. Len(<<t[1]>>) = 1 /\ <<t[1]>>[1] = t[1]
        OBVIOUS
      <4> QED BY <2>4, <4>1, <4>2 DEF RM!IsSystem
    <3>2. CASE n # 1
      <4>1. 1 \in 1..(n - 1) /\ n - 1 # 0
        BY <1>1, <3>2
      <4>2. f[1] # SM!Hash /\ p[1] = t[1]
        BY <1>1, <2>6, <2>7, <4>1
      <4> QED BY <2>6, <4>1, <4>2
    <3> QED BY <3>1, <3>2
  <2>10. \A j \in 1..(n - 1) : f[j] = t[j] \/ f[j] = SM!Plus
    BY <2>6, <2>7
  <2> QED BY <2>1, <2>8, <2>9, <2>10 DEF SM!Matches, n
<1>10. ASSUME NEW t \in T, t \in ToSet(reached) PROVE MatchesRetained(f, t)
  <2>1. FollowsTo(f, t, ends)
    BY <1>4, <1>10 DEF ToSet
  <2>2. /\ Len(t) = ends /\ \A j \in 1..ends : f[j] = t[j] \/ f[j] = SM!Plus
        /\ ends # 0 /\ f[1] = SM!Plus => t[1] \notin SystemLevels
    BY <2>1 DEF FollowsTo
  <2>3. ends # 0 /\ ends \in Nat /\ 1 \in 1..n
    BY <1>1, <1>2, <2>2
  <2>4. CASE f[n] # SM!Hash
    <3>1. f[1] # SM!Hash /\ ends = n
      BY <1>1, <1>7, <2>3, <2>4
    <3>2. SM!Matches(f, t)
      BY <2>2, <2>3, <2>4, <3>1 DEF SM!Matches, n
    <3> QED BY <3>2 DEF MatchesRetained
  <2>5. CASE f[n] = SM!Hash
    <3> DEFINE g == Front(f)
    <3>1. ends = n - 1 /\ Len(g) = ends /\ \A j \in 1..ends : g[j] = f[j] /\ f[j] # SM!Hash
      BY <1>1, <1>5, <1>6, <2>5
    <3>2. 1 \in 1..ends /\ ends \in 1..ends /\ n > 1
      BY <1>1, <2>3, <3>1
    <3> HIDE DEF g
    <3>3. g[ends] # SM!Hash /\ g[1] # SM!Hash /\ g[1] = f[1]
      BY <3>1, <3>2
    <3>4. SM!Matches(g, t)
      BY <2>2, <2>3, <3>1, <3>3 DEF SM!Matches
    <3> QED BY <1>8, <2>5, <3>2, <3>4 DEF MatchesRetained, g, n
  <2> QED BY <2>4, <2>5
<1>11. \A t \in found : t \in T /\ MatchesRetained(f, t)
  <2> SUFFICES ASSUME NEW t \in found PROVE t \in T /\ MatchesRetained(f, t)
    OBVIOUS
  <2>1. CASE t \in below
    <3>1. t \in T
      BY <1>2, <2>1 DEF RM!Below
    <3> HIDE DEF below
    <3> QED BY <1>9, <2>1, <3>1 DEF MatchesRetained
  <2>2. CASE t \in ToSet(reached) /\ t \in T
    BY <1>10, <2>2
  <2> HIDE DEF below, T
  <2> QED BY <1>3, <2>1, <2>2
<1>12. ASSUME SM!Plus \notin ToSet(f), NEW t \in T, MatchesRetained(f, t)
       PROVE  t \in found
  <2> DEFINE p == SubSeq(f, 1, ends)
  <2>1. \A j \in 1..n : f[j] # SM!Plus
    BY <1>1, <1>12, LenProperties DEF ToSet, Paths, n
  <2>2. p \in DOMAIN map.nodes => reached = <<p>>
    BY <1>4, <2>1
  <2>3. p \in Paths /\ Len(p) = ends /\ \A j \in 1..ends : p[j] = f[j]
    BY <1>5
  <2>4. ends \in Nat /\ ends <= n
    BY <1>1
  <2> HIDE DEF p
  <2>5. ASSUME p \in DOMAIN map.nodes
        PROVE  p \in ToSet(reached) /\ Head(reached) = p /\ reached # <<>>
    <3>1. reached = <<p>>
      BY <2>2, <2>5
    <3>2. <<p>>[1] = p /\ 1 \in DOMAIN <<p>> /\ Head(<<p>>) = p /\ <<p>> # <<>>
      OBVIOUS
    <3> QED BY <3>1, <3>2 DEF ToSet
  <2>6. ASSUME t = p PROVE t \in found
    <3>1. p \in DOMAIN map.nodes
      BY <1>2, <2>6, PrefixesOf
    <3> HIDE DEF below
    <3> QED BY <1>3, <2>5, <2>6, <3>1
  <2>7. CASE SM!Matches(f, t) /\ f[n] # SM!Hash
    <3>1. Len(t) = n /\ \A j \in 1..n : f[j] = t[j]
      BY <2>1, <2>7 DEF SM!Matches, n
    <3>2. ends = n
      BY <1>7, <2>7
    <3>3. t = p
      BY <1>2, <2>3, <3>1, <3>2, SeqEqual DEF Paths
    <3> QED BY <2>6, <3>3
  <2>8. CASE SM!Matches(f, t) /\ f[n] = SM!Hash
    <3>1. /\ Len(t) >= n /\ \A j \in 1..(n - 1) : f[j] = t[j]
          /\ f[1] \in {SM!Plus, SM!Hash} => t[1] \notin SystemLevels
      <4>1. \A j \in 1..(n - 1) : j \in 1..n
        BY <1>1
      <4> QED BY <2>1, <2>8, <4>1 DEF SM!Matches, n
    <3>2. ends = n - 1
      BY <1>6, <2>8
    <3>3. IsPrefix(p, t)
      BY <1>1, <1>2, <2>3, <3>1, <3>2, PrefixIs
    <3>4. p \in DOMAIN map.nodes
      BY <1>2, <2>3, <3>3, PrefixIs
    <3>5. p # t
      BY <1>1, <1>2, <2>3, <3>1, <3>2
    <3>6. p = <<>> => ~RM!IsSystem(<<t[1]>>)
      <4> SUFFICES ASSUME p = <<>> PROVE ~RM!IsSystem(<<t[1]>>)
        OBVIOUS
      <4>1. n = 1
        BY <1>1, <2>3, <3>2, EmptySeq
      <4>2. f[1] = SM!Hash
        BY <2>8, <4>1
      <4>3. Len(<<t[1]>>) = 1 /\ <<t[1]>>[1] = t[1]
        OBVIOUS
      <4> QED BY <3>1, <4>2, <4>3 DEF RM!IsSystem
    <3>7. t \in RM!Below(map, p)
      BY <1>1, <1>2, <3>3, <3>5, <3>6, SequencesOfMap DEF RM!Below, IsStrictPrefix
    <3>8. t \in below
      BY <1>1, <2>5, <2>8, <3>4, <3>7
    <3> HIDE DEF below
    <3> QED BY <1>3, <3>8
  <2>9. CASE f[n] = SM!Hash /\ n > 1 /\ SM!Matches(Front(f), t)
    <3>1. ends = n - 1 /\ p = Front(f)
      BY <1>6, <2>9 DEF p
    <3>2. /\ ends \in 1..ends /\ p[ends] # SM!Hash
          /\ \A j \in 1..ends : p[j] # SM!Plus
      <4>1. ends \in 1..ends /\ \A j \in 1..ends : j \in 1..n /\ j \in 1..(n - 1)
        BY <1>1, <2>4, <2>9, <3>1
      <4> QED BY <1>1, <2>1, <2>3, <4>1
    <3>3. SM!Matches(p, t)
      BY <2>9, <3>1
    <3>4. Len(t) = ends /\ \A j \in 1..ends : p[j] = t[j]
      BY <2>3, <3>2, <3>3 DEF SM!Matches
    <3>5. t = p
      BY <1>2, <2>3, <3>4, SeqEqual DEF Paths
    <3> QED BY <2>6, <3>5
  <2>10. \/ SM!Matches(f, t)
         \/ f[n] = SM!Hash /\ n > 1 /\ SM!Matches(Front(f), t)
    BY <1>8, <1>12 DEF MatchesRetained, n
  <2> QED BY <2>7, <2>8, <2>9, <2>10
<1> QED BY <1>11, <1>12 DEF found, T

LEMMA RetainedInvMeans == RetainedInv => RetainedExact
<1> SUFFICES ASSUME RetainedInv PROVE RetainedExact
  OBVIOUS
<1>1. MapOf(retains, latest) /\ RetainedTopics = Holds(latest)
  BY DEF RetainedInv, RetainedTopics, Holds
<1>2. /\ RetainedTopics \subseteq Topics
      /\ DOMAIN retains.nodes = {RM!Root} \union UNION {Prefixes(t) : t \in RetainedTopics}
      /\ \A p \in DOMAIN retains.nodes :
            retains.nodes[p].value = IF p \in RetainedTopics THEN latest[p] ELSE {}
  BY <1>1 DEF MapOf, NodesOf, RetainedTopics
<1>3. SM!Root = RM!Root
  BY PathOfIs
<1>4. ASSUME NEW t \in RetainedTopics PROVE retains.nodes[t].value = latest[t]
  <2>1. t \in Prefixes(t)
    BY <1>2, TopicsArePaths, PrefixesOf
  <2> QED BY <1>2, <2>1
<1>5. ASSUME NEW f \in Filters
      PROVE  LET found == RM!RetainedFound(retains, f)
                 match == {t \in RetainedTopics : MatchesRetained(f, t)}
             IN  /\ found \subseteq match
                 /\ SM!Plus \notin ToSet(f) => found = match
  BY <1>1, RetainedFoundIs
<1>6. DOMAIN retains.nodes = {SM!Root} \union UNION {Prefixes(t) : t \in RetainedTopics}
  BY <1>2, <1>3
<1> QED BY <1>4, <1>5, <1>6 DEF RetainedExact

(* The retained messages stay what was published last on each topic, with  *)
(* no node left over, and a new subscription finds none its filter does    *)
(* not match and, without +, all that it matches: after any sequence of    *)
(* publishes, replacements, deletions and expiries, each of which counts   *)
(* up or down the path of its topic (retained_topic_map.hpp). The node     *)
(* counts are what makes it inductive: a node is there as long as some     *)
(* topic at or below it holds a message.                                   *)
THEOREM RetainedStaysExact == Spec => []RetainedExact
<1>1. Init => RetainedInv
  BY RetainedStarts
<1>2. RetainedInv /\ [Next]_vars => RetainedInv'
  BY RetainedStays
<1>3. RetainedInv => RetainedExact
  BY RetainedInvMeans
<1> QED BY <1>1, <1>2, <1>3, PTL DEF Spec
=============================================================================
