---------------------------- MODULE PolicyProofs ----------------------------
(***************************************************************************)
(* Theorems about the policy as it is evaluated.  Of single questions      *)
(* (MCPolicyDecision): the decision procedure of the snapshot answers as   *)
(* the guide says, for every configuration.  Of requests (PolicyRequest):  *)
(* for every set of request threads, configurations and requests, and      *)
(* every number of publications, what a thread finds in the cache never    *)
(* changes an answer, and no question of a request goes unexamined.  Of    *)
(* schedules (Schedules): for weeks, days and hours of any length, every   *)
(* schedule and every zone whose clock changes on the hour, a schedule is  *)
(* active when the guide says so, and of its transitions none is missed on *)
(* the days that are tried.                                                *)
(***************************************************************************)
EXTENDS MCPolicy, FiniteSetTheorems, SequenceTheorems, NaturalsInduction, TLAPS

-----------------------------------------------------------------------------
(* Finite sets in order.                                                   *)

\* The library's order of the naturals has least elements.
LEMMA LeastNatural ==
    ASSUME NEW S \in SUBSET Nat, S # {}
    PROVE  \E x \in S : \A y \in S : x <= y
<1>1. IsWellFoundedOn({ss \in Nat \X Nat : ss[1] < ss[2]}, Nat)
    BY NatLessThanWellFounded DEF OpToRel
<1>2. PICK x \in S : \A y \in S :
          ~ (<<y, x>> \in {ss \in Nat \X Nat : ss[1] < ss[2]})
    BY <1>1, WFMin
<1>3. ASSUME NEW y \in S
      PROVE  x <= y
    <2>1. <<y, x>> \in Nat \X Nat
        OBVIOUS
    <2>2. ~ (y < x)
        BY <1>2, <2>1
    <2>3. QED
        BY <2>2
<1>4. QED
    BY <1>3

\* The choice of a first one.
LEMMA FirstHit ==
    ASSUME NEW S \in SUBSET Nat, S # {}
    PROVE  /\ (CHOOSE x \in S : \A y \in S : x <= y) \in S
           /\ \A y \in S : (CHOOSE x \in S : \A z \in S : x <= z) <= y
    BY LeastNatural

\* The choice of a greatest one.
LEMMA GreatestNatural ==
    ASSUME NEW n \in Nat, NEW S \in SUBSET (0..n), S # {}
    PROVE  \E x \in S : \A y \in S : y <= x
<1>1. DEFINE T == {k \in 0..n : n - k \in S}
<1>2. T \in SUBSET Nat /\ T # {}
    <2>1. PICK s \in S : TRUE
        OBVIOUS
    <2>2. n - s \in 0..n /\ n - (n - s) = s
        OBVIOUS
    <2>3. n - s \in T
        BY <2>1, <2>2
    <2>4. T \subseteq Nat
        OBVIOUS
    <2>5. QED
        BY <2>3, <2>4
<1>3. PICK k \in T : \A j \in T : k <= j
    BY <1>2, LeastNatural
<1>4. ASSUME NEW y \in S
      PROVE  y <= n - k
    <2>1. n - y \in T
        OBVIOUS
    <2>2. QED
        BY <1>3, <2>1
<1>5. QED
    BY <1>3, <1>4

\* The members of a finite set under a strict total order, given as the set of
\* those before each: counting these numbers them.
LEMMA Ranked ==
    ASSUME NEW S, IsFiniteSet(S), NEW before \in [S -> SUBSET S],
           \A x \in S : x \notin before[x],
           \A x, y \in S : x = y \/ x \in before[y] \/ y \in before[x],
           \A x, y \in S : x \in before[y] => before[x] \subseteq before[y]
    PROVE  /\ Cardinality(S) \in Nat
           /\ \A x \in S : Cardinality(before[x]) + 1 \in 1..Cardinality(S)
           /\ \A k \in 1..Cardinality(S) :
                 \E x \in S : Cardinality(before[x]) = k - 1
           /\ \A x, y \in S :
                 x \in before[y] <=> Cardinality(before[x]) < Cardinality(before[y])
           /\ \A x, y \in S :
                 Cardinality(before[x]) = Cardinality(before[y]) => x = y
<1>1. Cardinality(S) \in Nat
    BY FS_CardinalityType
<1>2. \A x \in S : IsFiniteSet(before[x]) /\ Cardinality(before[x]) \in Nat
    BY FS_Subset, FS_CardinalityType
<1>3. ASSUME NEW x \in S, NEW y \in S, x \in before[y]
      PROVE  Cardinality(before[x]) < Cardinality(before[y])
    <2>1. before[x] \in SUBSET before[y] /\ before[x] # before[y]
        BY <1>3
    <2>2. /\ Cardinality(before[x]) <= Cardinality(before[y])
          /\ Cardinality(before[y]) = Cardinality(before[x]) => before[y] = before[x]
        BY <1>2, <2>1, FS_Subset
    <2>3. QED
        BY <1>2, <2>1, <2>2
<1>4. ASSUME NEW x \in S
      PROVE  Cardinality(before[x]) < Cardinality(S)
    <2>1. before[x] \in SUBSET S /\ before[x] # S
        OBVIOUS
    <2>2. /\ Cardinality(before[x]) <= Cardinality(S)
          /\ Cardinality(S) = Cardinality(before[x]) => S = before[x]
        BY <2>1, FS_Subset
    <2>3. QED
        BY <1>1, <1>2, <2>1, <2>2
<1>5. \A x, y \in S :
         /\ x \in before[y] <=> Cardinality(before[x]) < Cardinality(before[y])
         /\ Cardinality(before[x]) = Cardinality(before[y]) => x = y
    BY <1>2, <1>3
<1> DEFINE rank == [x \in S |-> Cardinality(before[x]) + 1]
<1>6. \A x \in S : rank[x] \in 1..Cardinality(S)
    BY <1>1, <1>2, <1>4
<1>7. rank \in Injection(S, 1..Cardinality(S))
    <2>1. rank \in [S -> 1..Cardinality(S)]
        BY <1>6
    <2>2. \A x, y \in S : rank[x] = rank[y] => x = y
        BY <1>2, <1>5
    <2>3. QED
        BY <2>1, <2>2 DEF Injection, IsInjective
<1>8. rank \in Surjection(S, 1..Cardinality(S))
    <2>1. IsFiniteSet(1..Cardinality(S)) /\ Cardinality(1..Cardinality(S)) = Cardinality(S)
        BY <1>1, FS_Interval
    <2>2. QED
        BY <1>7, <2>1, FS_Injection
<1>9. ASSUME NEW k \in 1..Cardinality(S)
      PROVE  \E x \in S : Cardinality(before[x]) = k - 1
    <2>1. PICK x \in S : rank[x] = k
        BY <1>8 DEF Surjection
    <2>2. QED
        BY <1>2, <2>1
<1>10. QED
    BY <1>1, <1>5, <1>6, <1>9

\* Rows are read once each, in the order of their ids.
LEMMA IdsInOrder ==
    ASSUME NEW rows, IdsAreKeys(rows)
    PROVE  /\ Cardinality(rows) \in Nat
           /\ ById(rows) \in [1..Cardinality(rows) -> rows]
           /\ \A r \in rows : \E k \in 1..Cardinality(rows) : ById(rows)[k] = r
           /\ \A j, k \in 1..Cardinality(rows) :
                 j < k => ById(rows)[j].id < ById(rows)[k].id
<1> DEFINE before == [r \in rows |-> {other \in rows : other.id < r.id}]
           Nth(k) == CHOOSE r \in rows :
                        Cardinality({other \in rows : other.id < r.id}) = k - 1
<1>1. IsFiniteSet(rows) /\ before \in [rows -> SUBSET rows]
    BY DEF IdsAreKeys
<1>2. \A x, y \in rows : x \in before[y] <=> x.id < y.id
    OBVIOUS
<1>3. \A r \in rows : r.id \in Nat
    BY DEF IdsAreKeys
<1>4. \A x, y \in rows : x.id = y.id => x = y
    BY DEF IdsAreKeys
<1>5. \A x \in rows : x \notin before[x]
    BY <1>2, <1>3
<1>6. \A x, y \in rows : x = y \/ x \in before[y] \/ y \in before[x]
    BY <1>2, <1>3, <1>4
<1>7. \A x, y \in rows : x \in before[y] => before[x] \subseteq before[y]
    BY <1>1, <1>2, <1>3
<1>8. /\ Cardinality(rows) \in Nat
      /\ \A x \in rows : Cardinality(before[x]) + 1 \in 1..Cardinality(rows)
      /\ \A k \in 1..Cardinality(rows) :
            \E x \in rows : Cardinality(before[x]) = k - 1
      /\ \A x, y \in rows :
            x \in before[y] <=> Cardinality(before[x]) < Cardinality(before[y])
      /\ \A x, y \in rows :
            Cardinality(before[x]) = Cardinality(before[y]) => x = y
    <2> HIDE DEF before
    <2>1. QED
        BY <1>1, <1>5, <1>6, <1>7, Ranked
<1>9. ById(rows) = [k \in 1..Cardinality(rows) |-> Nth(k)]
    BY DEF ById
<1>10. \A k \in 1..Cardinality(rows) :
          Nth(k) \in rows /\ Cardinality(before[Nth(k)]) = k - 1
    <2>1. ASSUME NEW k \in 1..Cardinality(rows)
          PROVE  /\ Nth(k) \in rows
                 /\ Cardinality({other \in rows : other.id < Nth(k).id}) = k - 1
        <3>1. PICK x \in rows : Cardinality(before[x]) = k - 1
            BY <1>8
        <3>2. Cardinality({other \in rows : other.id < x.id}) = k - 1
            BY <3>1
        <3>3. QED
            BY <3>2
    <2>2. QED
        BY <2>1
<1> HIDE DEF before, Nth
<1>11. ById(rows) \in [1..Cardinality(rows) -> rows]
    BY <1>9, <1>10
<1>12. ASSUME NEW r \in rows
       PROVE  \E k \in 1..Cardinality(rows) : ById(rows)[k] = r
    <2> DEFINE k == Cardinality(before[r]) + 1
    <2>1. k \in 1..Cardinality(rows)
        BY <1>8
    <2>2. Cardinality(before[Nth(k)]) = Cardinality(before[r])
        <3>1. Cardinality(before[r]) \in Nat
            BY <1>1, FS_Subset, FS_CardinalityType
        <3>2. k - 1 = Cardinality(before[r])
            BY <3>1
        <3>3. QED
            BY <1>10, <2>1, <3>2
    <2>3. Nth(k) = r
        BY <1>8, <1>10, <2>1, <2>2
    <2> HIDE DEF k
    <2>4. QED
        BY <1>9, <2>1, <2>3
<1>13. ASSUME NEW j \in 1..Cardinality(rows), NEW k \in 1..Cardinality(rows), j < k
       PROVE  ById(rows)[j].id < ById(rows)[k].id
    <2>1. ById(rows)[j] = Nth(j) /\ ById(rows)[k] = Nth(k)
        BY <1>9
    <2>2. Cardinality(before[Nth(j)]) < Cardinality(before[Nth(k)])
        BY <1>8, <1>10, <1>13
    <2>3. Nth(j) \in before[Nth(k)]
        BY <1>8, <1>10, <2>2
    <2>4. QED
        BY <1>2, <1>10, <2>1, <2>3
<1>14. QED
    BY <1>8, <1>11, <1>12, <1>13

\* A finite set of items can be listed in decreasing order of a number each has.
LEMMA SortedOrder ==
    ASSUME NEW items, IsFiniteSet(items), NEW key \in [items -> Nat]
    PROVE  \E order \in [1..Cardinality(items) -> items] :
              /\ {order[k] : k \in DOMAIN order} = items
              /\ \A j, k \in DOMAIN order : j < k => key[order[j]] >= key[order[k]]
<1>1. Cardinality(items) \in Nat /\ ExistsBijection(1..Cardinality(items), items)
    BY FS_CardinalityType
<1>2. PICK g \in Bijection(1..Cardinality(items), items) : TRUE
    BY <1>1 DEF ExistsBijection
<1>3. \A x \in items : \E k \in 1..Cardinality(items) : g[k] = x
    BY <1>2 DEF Bijection, Surjection
<1> DEFINE place == [x \in items |-> CHOOSE k \in 1..Cardinality(items) : g[k] = x]
<1>4. \A x \in items : place[x] \in Nat /\ g[place[x]] = x
    BY <1>1, <1>3
<1> HIDE DEF place
<1> DEFINE Before(x, y) == \/ key[x] > key[y]
                           \/ key[x] = key[y] /\ place[x] < place[y]
           before == [y \in items |-> {x \in items : Before(x, y)}]
<1>5. before \in [items -> SUBSET items]
      /\ \A x, y \in items : x \in before[y] <=> Before(x, y)
    OBVIOUS
<1>6. \A x \in items : key[x] \in Nat
    OBVIOUS
<1>7. \A x \in items : x \notin before[x]
    BY <1>4, <1>5, <1>6
<1>8. \A x, y \in items : x = y \/ x \in before[y] \/ y \in before[x]
    <2>1. \A x, y \in items : place[x] = place[y] => x = y
        BY <1>4
    <2>2. ASSUME NEW x \in items, NEW y \in items, x # y
          PROVE  Before(x, y) \/ Before(y, x)
        <3>1. place[x] \in Nat /\ place[y] \in Nat /\ place[x] # place[y]
            BY <1>4, <2>1, <2>2
        <3>2. key[x] \in Nat /\ key[y] \in Nat
            BY <1>6
        <3>3. QED
            BY <3>1, <3>2
    <2> HIDE DEF before, Before
    <2>3. QED
        BY <1>5, <2>2
<1>9. \A x, y, z \in items : Before(x, y) /\ Before(y, z) => Before(x, z)
    BY <1>4, <1>6
<1>10. \A x, y \in items : x \in before[y] => before[x] \subseteq before[y]
    <2> HIDE DEF Before
    <2>1. QED
        BY <1>5, <1>9
<1>11. \A x, y \in items : x \in before[y] => key[x] >= key[y]
    BY <1>5, <1>6
<1> HIDE DEF before
<1>12. /\ \A x \in items : Cardinality(before[x]) + 1 \in 1..Cardinality(items)
       /\ \A k \in 1..Cardinality(items) :
             \E x \in items : Cardinality(before[x]) = k - 1
       /\ \A x, y \in items :
             x \in before[y] <=> Cardinality(before[x]) < Cardinality(before[y])
       /\ \A x, y \in items :
             Cardinality(before[x]) = Cardinality(before[y]) => x = y
    BY <1>5, <1>7, <1>8, <1>10, Ranked
<1> DEFINE order == [k \in 1..Cardinality(items) |->
                        CHOOSE x \in items : Cardinality(before[x]) = k - 1]
<1>13. \A k \in 1..Cardinality(items) :
          order[k] \in items /\ Cardinality(before[order[k]]) = k - 1
    BY <1>12
<1>14. DOMAIN order = 1..Cardinality(items)
    OBVIOUS
<1> HIDE DEF order
<1>15. order \in [1..Cardinality(items) -> items]
    BY <1>13, <1>14 DEF order
<1>16. ASSUME NEW x \in items
       PROVE  \E k \in DOMAIN order : order[k] = x
    <2> DEFINE k == Cardinality(before[x]) + 1
    <2>1. k \in 1..Cardinality(items)
        BY <1>12
    <2>2. Cardinality(before[x]) \in Nat
        BY <1>5, FS_Subset, FS_CardinalityType
    <2>3. Cardinality(before[order[k]]) = Cardinality(before[x])
        BY <1>13, <2>1, <2>2
    <2>4. order[k] = x
        BY <1>12, <1>13, <2>1, <2>3
    <2> HIDE DEF k
    <2>5. QED
        BY <1>14, <2>1, <2>4
<1>17. {order[k] : k \in DOMAIN order} = items
    BY <1>13, <1>14, <1>16
<1>18. \A j, k \in DOMAIN order : j < k => key[order[j]] >= key[order[k]]
    <2> SUFFICES ASSUME NEW j \in DOMAIN order, NEW k \in DOMAIN order, j < k
                 PROVE  key[order[j]] >= key[order[k]]
        OBVIOUS
    <2>1. Cardinality(before[order[j]]) < Cardinality(before[order[k]])
        BY <1>13, <1>14
    <2>2. QED
        BY <1>11, <1>12, <1>13, <1>14, <2>1
<1>19. QED
    BY <1>15, <1>17, <1>18

-----------------------------------------------------------------------------
(* The snapshot of a configuration, on its rows.                           *)

Order(c) == ById(c.lists)
Compiled(c, r) == IF r = Nobody THEN Nobody ELSE CompileScope(Order(c), r)

\* A configuration as it may be, in which Nobody is no target.
Known(c) ==
    /\ ConfigOK(c)
    /\ \A r \in c.scopes : Nobody # r /\ Nobody # CompileScope(Order(c), r)

ClientRows(c, ip) == {r \in c.scopes : r.kind = "client" /\ r.target = ip}
ExactRows(c, name) ==
    {r \in c.scopes : r.kind = "hostname" /\ ~r.target.wild /\ r.target.name = name}
WildRows(c) == {r \in c.scopes : r.kind = "hostname" /\ r.target.wild}
RowsUnder(c, name) == {r \in WildRows(c) : r.target.name = name}
NetworkRows(c) == {r \in c.scopes : r.kind = "network"}
RowsAt(c, network) == {r \in NetworkRows(c) : network \in r.target}
Prefixes(c, family) ==
    {n.prefix : n \in {m \in UNION {r.target : r \in NetworkRows(c)} : m.family = family}}

\* The rows on schedule, exempted ones only if need be, and the oldest of them.
Eligible(rows, t, white) == {r \in rows : (white => r.whitelisted) /\ t \in r.hours}
First(rows, t, white) ==
    IF Eligible(rows, t, white) = {} THEN Nobody ELSE Oldest(Eligible(rows, t, white))

LEMMA CompiledFields ==
    ASSUME NEW order, NEW r
    PROVE  /\ CompileScope(order, r).id = r.id
           /\ CompileScope(order, r).kind = r.kind
           /\ CompileScope(order, r).target = r.target
           /\ CompileScope(order, r).state = r.state
           /\ CompileScope(order, r).whitelisted = r.whitelisted
           /\ CompileScope(order, r).hours = r.hours
           /\ CompileScope(order, r).mask = Bits(order, r.lists)
    BY DEF CompileScope

LEMMA SnapshotFields ==
    ASSUME NEW c
    PROVE  /\ Compile(c).order = Order(c)
           /\ Compile(c).global_list_mask =
                 {k \in DOMAIN Order(c) : Order(c)[k].enabled /\ Order(c)[k].use_globally}
           /\ Compile(c).whitelist_mask =
                 {k \in DOMAIN Order(c) :
                     Order(c)[k].enabled /\ Order(c)[k].type = "whitelist"}
           /\ Compile(c).block_mask =
                 {k \in DOMAIN Order(c) : Order(c)[k].enabled /\ Order(c)[k].type = "block"}
           /\ Compile(c).identities = c.identities
           /\ Compile(c).global_blocking = c.global_blocking
           /\ Compile(c).unmatched = c.unmatched
           /\ Compile(c).reach = c.reach
<1>1. Compile(c).order = Order(c)
    BY Zenon DEF Compile, Order
<1>2. Compile(c).global_list_mask =
         {k \in {j \in DOMAIN Order(c) : Order(c)[j].enabled} : Order(c)[k].use_globally}
    BY Zenon DEF Compile, Order
<1>3. Compile(c).whitelist_mask =
         {k \in {j \in DOMAIN Order(c) : Order(c)[j].enabled} :
             Order(c)[k].type = "whitelist"}
    BY Zenon DEF Compile, Order
<1>4. Compile(c).block_mask =
         {k \in {j \in DOMAIN Order(c) : Order(c)[j].enabled} : Order(c)[k].type = "block"}
    BY Zenon DEF Compile, Order
<1>5. /\ Compile(c).identities = c.identities
      /\ Compile(c).global_blocking = c.global_blocking
      /\ Compile(c).unmatched = c.unmatched
      /\ Compile(c).reach = c.reach
    BY Zenon DEF Compile
<1>6. QED
    BY <1>1, <1>2, <1>3, <1>4, <1>5

\* The indexes of the snapshot hold the compiled rows of their kind.
LEMMA SnapshotIndexes ==
    ASSUME NEW c
    PROVE  /\ \A ip : {s \in Compile(c).client_scopes : s.target = ip} =
                      {CompileScope(Order(c), r) : r \in ClientRows(c, ip)}
           /\ \A name : {s \in Compile(c).exact_hostname_scopes : s.target.name = name} =
                        {CompileScope(Order(c), r) : r \in ExactRows(c, name)}
           /\ \A name : {s \in Compile(c).wildcard_hostname_scopes : s.target.name = name} =
                        {CompileScope(Order(c), r) : r \in RowsUnder(c, name)}
           /\ \A n : {s \in Compile(c).network_scopes : n \in s.target} =
                     {CompileScope(Order(c), r) : r \in RowsAt(c, n)}
<1> DEFINE all == {CompileScope(Order(c), r) : r \in c.scopes}
           named == {s \in all : s.kind = "hostname"}
           wild == {s \in named : s.target.wild}
           nets == {s \in all : s.kind = "network"}
<1>1. /\ Compile(c).client_scopes = {s \in all : s.kind = "client"}
      /\ Compile(c).exact_hostname_scopes = named \ wild
      /\ Compile(c).wildcard_hostname_scopes = wild
      /\ Compile(c).network_scopes = nets
    BY Zenon DEF Compile, Order
<1>4. \A r : /\ CompileScope(Order(c), r).kind = r.kind
             /\ CompileScope(Order(c), r).target = r.target
    BY CompiledFields
<1>5. \A ip : {s \in Compile(c).client_scopes : s.target = ip} =
              {CompileScope(Order(c), r) : r \in ClientRows(c, ip)}
    BY <1>1, <1>4 DEF ClientRows
<1>6. \A name : {s \in Compile(c).exact_hostname_scopes : s.target.name = name} =
                {CompileScope(Order(c), r) : r \in ExactRows(c, name)}
    BY <1>1, <1>4 DEF ExactRows
<1>7. wild = {CompileScope(Order(c), r) : r \in WildRows(c)}
    BY <1>4 DEF WildRows
<1>8. nets = {CompileScope(Order(c), r) : r \in NetworkRows(c)}
    BY <1>4 DEF NetworkRows
<1> HIDE DEF wild, nets
<1>9. \A name : {s \in Compile(c).wildcard_hostname_scopes : s.target.name = name} =
                {CompileScope(Order(c), r) : r \in RowsUnder(c, name)}
    BY <1>1, <1>4, <1>7 DEF RowsUnder
<1>10. \A n : {s \in Compile(c).network_scopes : n \in s.target} =
              {CompileScope(Order(c), r) : r \in RowsAt(c, n)}
    BY <1>1, <1>4, <1>8 DEF RowsAt
<1>11. QED
    BY <1>5, <1>6, <1>9, <1>10

LEMMA ClientIndex ==
    ASSUME NEW c, NEW ip
    PROVE  {s \in Compile(c).client_scopes : s.target = ip}
           = {CompileScope(Order(c), r) : r \in ClientRows(c, ip)}
    BY SnapshotIndexes

LEMMA ExactIndex ==
    ASSUME NEW c, NEW name
    PROVE  {s \in Compile(c).exact_hostname_scopes : s.target.name = name}
           = {CompileScope(Order(c), r) : r \in ExactRows(c, name)}
    BY SnapshotIndexes

LEMMA WildcardIndex ==
    ASSUME NEW c, NEW name
    PROVE  {s \in Compile(c).wildcard_hostname_scopes : s.target.name = name}
           = {CompileScope(Order(c), r) : r \in RowsUnder(c, name)}
    BY SnapshotIndexes

LEMMA NetworkIndex ==
    ASSUME NEW c, NEW n
    PROVE  {s \in Compile(c).network_scopes : n \in s.target}
           = {CompileScope(Order(c), r) : r \in RowsAt(c, n)}
    BY SnapshotIndexes

LEMMA SnapshotKeys ==
    ASSUME NEW c
    PROVE  /\ Compile(c).wildcard_suffixes =
                 Descending({r.target.name : r \in WildRows(c)}, Len)
           /\ Compile(c).network_prefixes =
                 [family \in {4, 6} |-> Descending(Prefixes(c, family), LAMBDA p : p)]
<1> DEFINE all == {CompileScope(Order(c), r) : r \in c.scopes}
           wild == {s \in {x \in all : x.kind = "hostname"} : s.target.wild}
           nets == {s \in all : s.kind = "network"}
<1>1. Compile(c).wildcard_suffixes = Descending({s.target.name : s \in wild}, Len)
    BY Zenon DEF Compile, Order
<1>2. Compile(c).network_prefixes =
         [family \in {4, 6} |->
             Descending({n.prefix : n \in {m \in UNION {s.target : s \in nets} :
                                              m.family = family}}, LAMBDA p : p)]
    BY Zenon DEF Compile, Order
<1>3. \A r : /\ CompileScope(Order(c), r).kind = r.kind
             /\ CompileScope(Order(c), r).target = r.target
    BY CompiledFields
<1>4. wild = {CompileScope(Order(c), r) : r \in WildRows(c)}
    BY <1>3 DEF WildRows
<1>5. nets = {CompileScope(Order(c), r) : r \in NetworkRows(c)}
    BY <1>3 DEF NetworkRows
<1> HIDE DEF wild, nets
<1>6. {s.target.name : s \in wild} = {r.target.name : r \in WildRows(c)}
    BY <1>3, <1>4
<1>7. UNION {s.target : s \in nets} = UNION {r.target : r \in NetworkRows(c)}
    BY <1>3, <1>5
<1>8. QED
    BY <1>1, <1>2, <1>6, <1>7 DEF Prefixes

LEMMA OldestIsLeast ==
    ASSUME NEW rows, IdsAreKeys(rows), NEW K \in SUBSET rows, K # {}
    PROVE  /\ Oldest(K) \in K
           /\ \A r \in K : Oldest(K).id <= r.id
<1>1. {r.id : r \in K} \in SUBSET Nat /\ {r.id : r \in K} # {}
    BY DEF IdsAreKeys
<1>2. PICK n \in {r.id : r \in K} : \A m \in {r.id : r \in K} : n <= m
    BY <1>1, LeastNatural
<1>3. \E r \in K : \A other \in K : r.id <= other.id
    BY <1>2
<1>4. QED
    BY <1>3 DEF Oldest

\* Among compiled rows the lookup finds the oldest row that is eligible.
LEMMA ScheduledScopeIsFirst ==
    ASSUME NEW c, Known(c), NEW K \in SUBSET c.scopes, NEW t, NEW white
    PROVE  FirstScheduledScope({CompileScope(Order(c), r) : r \in K}, t, white)
           = Compiled(c, First(K, t, white))
<1> DEFINE C(r) == CompileScope(Order(c), r)
           E == Eligible(K, t, white)
           found == {s \in {C(r) : r \in K} : (white => s.whitelisted) /\ t \in s.hours}
<1>1. \A r : C(r).id = r.id /\ C(r).whitelisted = r.whitelisted /\ C(r).hours = r.hours
    BY CompiledFields
<1> HIDE DEF C
<1>2. found = {C(r) : r \in E}
    BY <1>1 DEF Eligible
<1>3. FirstScheduledScope({C(r) : r \in K}, t, white)
      = IF found = {} THEN Nobody ELSE Oldest(found)
    BY DEF FirstScheduledScope
<1>4. IdsAreKeys(c.scopes) /\ E \in SUBSET c.scopes
    BY DEF Known, ConfigOK, Eligible
<1> HIDE DEF E, found
<1>5. CASE E = {}
    BY <1>2, <1>3, <1>5 DEF First, Compiled, C, E
<1>6. CASE E # {}
    <2>1. Oldest(E) \in E /\ \A r \in E : Oldest(E).id <= r.id
        BY <1>4, <1>6, OldestIsLeast
    <2>2. ASSUME NEW s \in found, \A other \in found : s.id <= other.id
          PROVE  s = C(Oldest(E))
        <3>1. PICK r \in E : s = C(r)
            BY <1>2
        <3>2. C(Oldest(E)) \in found
            BY <1>2, <2>1
        <3>3. r.id <= Oldest(E).id /\ Oldest(E).id <= r.id
            BY <1>1, <2>1, <2>2, <3>1, <3>2
        <3>4. r \in c.scopes /\ Oldest(E) \in c.scopes
            BY <1>4, <2>1
        <3>5. r.id \in Nat /\ Oldest(E).id \in Nat
            BY <1>4, <3>4 DEF IdsAreKeys
        <3>6. r.id = Oldest(E).id
            BY <3>3, <3>5
        <3>7. r = Oldest(E)
            BY <1>4, <3>4, <3>6 DEF IdsAreKeys
        <3>8. QED
            BY <3>1, <3>7
    <2>3. C(Oldest(E)) \in found /\ \A other \in found : C(Oldest(E)).id <= other.id
        BY <1>1, <1>2, <2>1
    <2>4. Oldest(found) = C(Oldest(E))
        BY <2>2, <2>3 DEF Oldest
    <2>5. found # {}
        BY <2>3
    <2>6. Oldest(E) # Nobody
        BY <1>4, <2>1 DEF Known
    <2>7. QED
        BY <1>3, <1>6, <2>4, <2>5, <2>6 DEF First, Compiled, C, E
<1>7. QED
    BY <1>5, <1>6 DEF C

-----------------------------------------------------------------------------
(* What a target names: strings and masks of the code, and the rows.       *)

LEMMA SuffixIsTail ==
    ASSUME NEW name \in Seq(Labels), NEW k \in 1..Len(name)
    PROVE  /\ Suffix(name, k) \in Seq(Labels)
           /\ Len(Suffix(name, k)) = Len(name) - k + 1
<1>1. Len(name) \in Nat
    OBVIOUS
<1>2. \A i \in k..Len(name) : name[i] \in Labels
    OBVIOUS
<1>3. SubSeq(name, k, Len(name)) \in Seq(Labels)
      /\ Len(SubSeq(name, k, Len(name))) = IF k <= Len(name) THEN Len(name) - k + 1 ELSE 0
    BY <1>1, <1>2, SubSeqProperties
<1>4. QED
    BY <1>1, <1>3 DEF Suffix

\* A name is under a suffix when a proper parent of it is the suffix.
LEMMA EndsWithIsParent ==
    ASSUME NEW name \in Seq(Labels), NEW suffix \in Seq(Labels) \ {<<>>}
    PROVE  EndsWith(name, suffix)
           <=> \E n \in 1..(Len(name) - 1) : Suffix(name, n + 1) = suffix
<1>1. Len(name) \in Nat /\ Len(suffix) \in Nat \ {0}
    BY EmptySeq
<1>2. ASSUME EndsWith(name, suffix)
      PROVE  \E n \in 1..(Len(name) - 1) : Suffix(name, n + 1) = suffix
    <2>1. Len(suffix) < Len(name) /\ Suffix(name, Len(name) - Len(suffix) + 1) = suffix
        BY <1>2 DEF EndsWith
    <2>2. Len(name) - Len(suffix) \in 1..(Len(name) - 1)
        BY <1>1, <2>1
    <2>3. QED
        BY <2>1, <2>2
<1>3. ASSUME NEW n \in 1..(Len(name) - 1), Suffix(name, n + 1) = suffix
      PROVE  EndsWith(name, suffix)
    <2>1. n + 1 \in 1..Len(name)
        BY <1>1
    <2>2. Len(suffix) = Len(name) - (n + 1) + 1
        BY <1>3, <2>1, SuffixIsTail
    <2>3. Len(suffix) < Len(name) /\ Len(name) - Len(suffix) + 1 = n + 1
        BY <1>1, <2>2
    <2>4. QED
        BY <1>3, <2>3 DEF EndsWith
<1>4. QED
    BY <1>2, <1>3

\* Two suffixes of a name that are as long are the same.
LEMMA SuffixesOfOneLength ==
    ASSUME NEW name, NEW a, NEW b, EndsWith(name, a), EndsWith(name, b), Len(a) = Len(b)
    PROVE  a = b
    BY DEF EndsWith

\* The network of `prefix` bits that an address is in.
At(ip, prefix) ==
    [family |-> ip.family, prefix |-> prefix, base |-> NetworkValue(ip, prefix)]

LEMMA Division ==
    ASSUME NEW size \in Nat \ {0}, NEW v \in Nat, NEW b \in Nat, b % size = 0
    PROVE  (\E host \in 0..(size - 1) : v = b + host) <=> b = (v \div size) * size
<1>1. b \div size \in Nat /\ v \div size \in Nat /\ v % size \in 0..(size - 1)
    OBVIOUS
<1>2. b = (b \div size) * size + (b % size)
    OBVIOUS
<1>3. v = (v \div size) * size + (v % size)
    OBVIOUS
<1>4. b = (b \div size) * size
    BY <1>1, <1>2
<1>5. ASSUME NEW host \in 0..(size - 1), v = b + host
      PROVE  b = (v \div size) * size
    <2>1. v = (b \div size) * size + host
        BY <1>4, <1>5
    <2>2. \A q \in Nat, h \in 0..(size - 1) : v = q * size + h => q = v \div size
        OBVIOUS
    <2>3. b \div size = v \div size
        BY <1>1, <2>1, <2>2
    <2>4. QED
        BY <1>4, <2>3
<1>6. ASSUME b = (v \div size) * size
      PROVE  \E host \in 0..(size - 1) : v = b + host
    BY <1>1, <1>3, <1>6
<1>7. QED
    BY <1>5, <1>6

\* A network contains an address when it is the network of the address.
LEMMA ContainsIsAt ==
    ASSUME NEW ip \in Ips, NEW n, NetworkOK(n)
    PROVE  Contains(n, ip) <=> n = At(ip, n.prefix)
<1>1. ip.family \in {4, 6} /\ ip.value \in Nat
    BY CasesOK
<1>2. n \in [family : {4, 6}, prefix : Nat, base : Nat]
    BY DEF NetworkOK
<1>3. n.family \in {4, 6} /\ n.prefix \in Nat /\ n.base \in Nat
    BY <1>2
<1>4. n = [family |-> n.family, prefix |-> n.prefix, base |-> n.base]
    BY <1>2
<1>5. CASE n.family # ip.family
    <2>1. ~Contains(n, ip)
        BY <1>5 DEF Contains
    <2>2. At(ip, n.prefix).family = ip.family
        BY DEF At
    <2>3. QED
        BY <1>5, <2>1, <2>2
<1>6. CASE n.family = ip.family
    <2> DEFINE w == Width(ip.family)
               size == 2 ^ (w - n.prefix)
    <2>1. w \in Nat /\ w \in {Width4, Width6}
        BY <1>1, WidthsOK DEF Width
    <2>2. n.prefix <= w
        BY <1>6 DEF NetworkOK
    <2>3. w - n.prefix \in 0..w
        BY <1>3, <2>1, <2>2
    <2>4. w - n.prefix \in 0..Width4 \cup 0..Width6
        BY <2>1, <2>3
    <2>5. size \in Nat \ {0}
        BY <2>4, WidthsOK
    <2>6. n.base % size = 0
        BY <1>6 DEF NetworkOK
    <2>7. Contains(n, ip) <=> \E host \in 0..(size - 1) : ip.value = n.base + host
        BY <1>6 DEF Contains
    <2>8. NetworkValue(ip, n.prefix) = (ip.value \div size) * size
        BY DEF NetworkValue
    <2> HIDE DEF size
    <2>9. Contains(n, ip) <=> n.base = NetworkValue(ip, n.prefix)
        <3>1. (\E host \in 0..(size - 1) : ip.value = n.base + host)
              <=> n.base = (ip.value \div size) * size
            BY <1>1, <1>3, <2>5, <2>6, Division
        <3>2. QED
            BY <2>7, <2>8, <3>1
    <2>10. At(ip, n.prefix) =
              [family |-> n.family, prefix |-> n.prefix,
               base |-> NetworkValue(ip, n.prefix)]
        BY <1>6 DEF At
    <2>11. n.base = NetworkValue(ip, n.prefix) <=> n = At(ip, n.prefix)
        BY <1>4, <2>10
    <2>12. QED
        BY <2>9, <2>11
<1>7. QED
    BY <1>5, <1>6

-----------------------------------------------------------------------------
(* How specifically a row names a client.                                  *)

\* The prefixes with which a row names the network of a client.
PrefixesOf(r, ip) == {p \in 0..Width(ip.family) : At(ip, p) \in r.target}

LEMMA WidthIsNatural == ASSUME NEW ip \in Ips PROVE Width(ip.family) \in Nat
    BY WidthsOK DEF Width

LEMMA NetworksOfTarget ==
    ASSUME NEW c, Known(c), NEW ip \in Ips, NEW r \in NetworkRows(c)
    PROVE  /\ \A n \in r.target : n.prefix \in Nat /\ n.family \in {4, 6}
           /\ \A n \in r.target : n.family = ip.family => n.prefix \in 0..Width(ip.family)
           /\ \A n \in r.target : Contains(n, ip) <=> n = At(ip, n.prefix)
           /\ (\E n \in r.target : Contains(n, ip)) <=> PrefixesOf(r, ip) # {}
<1>1. r \in c.scopes /\ r.kind = "network" /\ TargetOK(r)
    BY DEF NetworkRows, Known, ConfigOK
<1>2. \A n \in r.target : NetworkOK(n)
    BY <1>1 DEF TargetOK
<1>3. \A n \in r.target : /\ n.prefix \in Nat /\ n.family \in {4, 6}
                          /\ n.prefix <= Width(n.family)
    BY <1>2 DEF NetworkOK
<1>4. \A n \in r.target : n.family = ip.family => n.prefix \in 0..Width(ip.family)
    BY <1>3, WidthIsNatural
<1>5. \A n \in r.target : Contains(n, ip) <=> n = At(ip, n.prefix)
    BY <1>2, ContainsIsAt
<1>6. \A p : At(ip, p).family = ip.family /\ At(ip, p).prefix = p
    BY DEF At
<1>7. ASSUME NEW n \in r.target, Contains(n, ip)
      PROVE  n.prefix \in PrefixesOf(r, ip)
    BY <1>4, <1>5, <1>6, <1>7 DEF PrefixesOf
<1>8. ASSUME NEW p \in PrefixesOf(r, ip)
      PROVE  \E n \in r.target : Contains(n, ip)
    BY <1>5, <1>6 DEF PrefixesOf
<1>9. QED
    BY <1>3, <1>4, <1>5, <1>7, <1>8

\* Where the documented order puts a row.
LEMMA SpecificityOfRow ==
    ASSUME NEW c, Known(c), NEW ip \in Ips, NEW t, NEW r \in c.scopes
    PROVE  LET name == c.identities[ip]
               place == Specificity(c, r, ip, t)
           IN  /\ t \notin r.hours => place = Nobody
               /\ t \in r.hours =>
                    /\ r.kind = "client" =>
                          place = IF r \in ClientRows(c, ip) THEN <<4, 0>> ELSE Nobody
                    /\ r.kind = "hostname" =>
                          place = IF name = Nobody THEN Nobody
                                  ELSE IF r \in ExactRows(c, name) THEN <<3, 0>>
                                  ELSE IF r \in WildRows(c) /\ EndsWith(name, r.target.name)
                                       THEN <<2, Len(r.target.name)>>
                                  ELSE Nobody
                    /\ r.kind = "network" =>
                          IF PrefixesOf(r, ip) = {} THEN place = Nobody
                          ELSE \A p \in PrefixesOf(r, ip) :
                                  (\A q \in PrefixesOf(r, ip) : q <= p) => place = <<1, p>>
<1> DEFINE name == c.identities[ip]
           place == Specificity(c, r, ip, t)
<1>1. TargetOK(r) /\ name \in Seq(Labels) \cup {Nobody}
    BY DEF Known, ConfigOK
<1>2. ASSUME t \notin r.hours
      PROVE  place = Nobody
    BY <1>2 DEF Specificity
<1>3. ASSUME t \in r.hours, r.kind = "client"
      PROVE  place = IF r \in ClientRows(c, ip) THEN <<4, 0>> ELSE Nobody
    BY <1>3 DEF Specificity, ClientRows
<1>4. ASSUME t \in r.hours, r.kind = "hostname"
      PROVE  place = IF name = Nobody THEN Nobody
                     ELSE IF r \in ExactRows(c, name) THEN <<3, 0>>
                     ELSE IF r \in WildRows(c) /\ EndsWith(name, r.target.name)
                          THEN <<2, Len(r.target.name)>>
                     ELSE Nobody
    <2>1. r.target.name \in Seq(Labels) \ {<<>>}
        BY <1>1, <1>4 DEF TargetOK
    <2>2. name # Nobody =>
             (EndsWith(name, r.target.name)
              <=> \E n \in 1..(Len(name) - 1) : Suffix(name, n + 1) = r.target.name)
        BY <1>1, <2>1, EndsWithIsParent
    <2>3. r \in ExactRows(c, name) <=> ~r.target.wild /\ r.target.name = name
        BY <1>4 DEF ExactRows
    <2>4. r \in WildRows(c) <=> r.target.wild
        BY <1>4 DEF WildRows
    <2>5. QED
        BY <1>4, <2>2, <2>3, <2>4 DEF Specificity
<1>5. ASSUME t \in r.hours, r.kind = "network", PrefixesOf(r, ip) = {}
      PROVE  place = Nobody
    <2>1. r \in NetworkRows(c)
        BY <1>5 DEF NetworkRows
    <2>2. ~ \E n \in r.target : Contains(n, ip)
        BY <1>5, <2>1, NetworksOfTarget
    <2>3. QED
        BY <1>5, <2>2 DEF Specificity
<1>6. ASSUME t \in r.hours, r.kind = "network",
             NEW p \in PrefixesOf(r, ip), \A q \in PrefixesOf(r, ip) : q <= p
      PROVE  place = <<1, p>>
    <2> DEFINE Longest(k) == /\ \E n \in r.target : Contains(n, ip) /\ n.prefix = k
                             /\ \A n \in r.target : Contains(n, ip) => n.prefix <= k
    <2>1. r \in NetworkRows(c)
        BY <1>6 DEF NetworkRows
    <2>2. \E n \in r.target : Contains(n, ip)
        BY <1>6, <2>1, NetworksOfTarget
    <2>3. place = <<1, CHOOSE k \in 0..Width(ip.family) : Longest(k)>>
        BY <1>6, <2>2 DEF Specificity
    <2>4. \A n \in r.target : Contains(n, ip) => n = At(ip, n.prefix) /\ n.prefix \in PrefixesOf(r, ip)
        <3>1. \A k : At(ip, k).family = ip.family
            BY DEF At
        <3>2. QED
            BY <2>1, <3>1, NetworksOfTarget DEF PrefixesOf
    <2>5. \A k \in PrefixesOf(r, ip) : /\ k \in 0..Width(ip.family)
                                       /\ \E n \in r.target : Contains(n, ip) /\ n.prefix = k
        <3>1. \A k : At(ip, k).prefix = k
            BY DEF At
        <3>2. QED
            BY <2>1, <3>1, NetworksOfTarget DEF PrefixesOf
    <2>6. p \in 0..Width(ip.family) /\ Longest(p)
        BY <1>6, <2>4, <2>5
    <2>7. ASSUME NEW k \in 0..Width(ip.family), Longest(k)
          PROVE  k = p
        <3>1. k \in PrefixesOf(r, ip)
            BY <2>4, <2>7
        <3>2. k <= p /\ p <= k
            BY <1>6, <2>6, <2>7, <3>1
        <3>3. QED
            BY <2>6, <3>2, WidthIsNatural
    <2> HIDE DEF Longest
    <2>8. (CHOOSE k \in 0..Width(ip.family) : Longest(k)) = p
        BY <2>6, <2>7
    <2>9. QED
        BY <2>3, <2>8
<1>7. QED
    BY <1>2, <1>3, <1>4, <1>5, <1>6

-----------------------------------------------------------------------------
(* What the searches of the snapshot find.                                 *)

LEMMA FirstIsOldest ==
    ASSUME NEW c, Known(c), NEW K \in SUBSET c.scopes, NEW t, NEW white
    PROVE  /\ Eligible(K, t, white) = {} => First(K, t, white) = Nobody
           /\ Eligible(K, t, white) # {} =>
                 /\ First(K, t, white) \in Eligible(K, t, white)
                 /\ \A r \in Eligible(K, t, white) : First(K, t, white).id <= r.id
           /\ Compiled(c, First(K, t, white)) # Nobody <=> Eligible(K, t, white) # {}
<1>1. IdsAreKeys(c.scopes) /\ Eligible(K, t, white) \in SUBSET c.scopes
    BY DEF Known, ConfigOK, Eligible
<1>2. Eligible(K, t, white) # {} =>
         /\ First(K, t, white) \in Eligible(K, t, white)
         /\ \A r \in Eligible(K, t, white) : First(K, t, white).id <= r.id
    BY <1>1, OldestIsLeast DEF First
<1>3. Eligible(K, t, white) = {} => First(K, t, white) = Nobody
    BY DEF First
<1>4. \A r \in c.scopes : Compiled(c, r) # Nobody
    BY DEF Compiled, Known
<1>5. QED
    BY <1>1, <1>2, <1>3, <1>4 DEF Compiled

LEMMA SuffixesInOrder ==
    ASSUME NEW c, Known(c)
    PROVE  \E n \in Nat :
              /\ DOMAIN Compile(c).wildcard_suffixes = 1..n
              /\ \A k \in 1..n :
                    Compile(c).wildcard_suffixes[k] \in {r.target.name : r \in WildRows(c)}
              /\ \A r \in WildRows(c) :
                    \E k \in 1..n : Compile(c).wildcard_suffixes[k] = r.target.name
              /\ \A j, k \in 1..n :
                    j < k => Len(Compile(c).wildcard_suffixes[j])
                             >= Len(Compile(c).wildcard_suffixes[k])
<1> DEFINE names == {r.target.name : r \in WildRows(c)}
           found == Compile(c).wildcard_suffixes
<1>1. found = Descending(names, Len)
    BY SnapshotKeys
<1>2. \A r \in WildRows(c) : r.target.name \in Seq(Labels)
    BY DEF WildRows, Known, ConfigOK, TargetOK
<1>3. IsFiniteSet(names)
    <2> DEFINE f == [r \in WildRows(c) |-> r.target.name]
    <2>1. IsFiniteSet(WildRows(c))
        <3>1. IsFiniteSet(c.scopes) /\ WildRows(c) \in SUBSET c.scopes
            BY DEF Known, ConfigOK, IdsAreKeys, WildRows
        <3>2. QED
            BY <3>1, FS_Subset
    <2>2. f \in Surjection(WildRows(c), names)
        BY DEF Surjection
    <2>3. QED
        BY <2>1, <2>2, FS_Surjection
<1>4. names \in SUBSET Seq(Labels)
    BY <1>2
<1>5. Cardinality(names) \in Nat
    BY <1>3, FS_CardinalityType
<1> HIDE DEF names
<1> DEFINE size == [x \in names |-> Len(x)]
<1>6. size \in [names -> Nat] /\ \A x \in names : size[x] = Len(x)
    BY <1>4
<1> HIDE DEF size
<1>7. \E order \in [1..Cardinality(names) -> names] :
         /\ {order[k] : k \in DOMAIN order} = names
         /\ \A j, k \in DOMAIN order : j < k => size[order[j]] >= size[order[k]]
    BY <1>3, <1>6, SortedOrder
<1>8. \E order \in [1..Cardinality(names) -> names] :
         /\ {order[k] : k \in DOMAIN order} = names
         /\ \A j, k \in DOMAIN order : j < k => Len(order[j]) >= Len(order[k])
    BY <1>6, <1>7
<1>9. /\ Descending(names, Len) \in [1..Cardinality(names) -> names]
      /\ {Descending(names, Len)[k] : k \in DOMAIN Descending(names, Len)} = names
      /\ \A j, k \in DOMAIN Descending(names, Len) :
            j < k => Len(Descending(names, Len)[j]) >= Len(Descending(names, Len)[k])
    BY <1>8 DEF Descending
<1> HIDE DEF found
<1>10. /\ found \in [1..Cardinality(names) -> names]
       /\ {found[k] : k \in DOMAIN found} = names
       /\ \A j, k \in DOMAIN found : j < k => Len(found[j]) >= Len(found[k])
    BY <1>1, <1>9
<1>11. DOMAIN found = 1..Cardinality(names)
    BY <1>10
<1>12. \A r \in WildRows(c) : r.target.name \in names
    BY DEF names
<1>13. \A r \in WildRows(c) : \E k \in 1..Cardinality(names) : found[k] = r.target.name
    BY <1>10, <1>11, <1>12
<1>14. QED
    BY <1>5, <1>10, <1>11, <1>13 DEF names, found

LEMMA PrefixesInOrder ==
    ASSUME NEW c, Known(c), NEW ip \in Ips
    PROVE  LET found == Compile(c).network_prefixes[ip.family]
           IN  \E n \in Nat :
                  /\ DOMAIN found = 1..n
                  /\ \A k \in 1..n : found[k] \in 0..Width(ip.family)
                  /\ \A r \in NetworkRows(c) : \A p \in PrefixesOf(r, ip) :
                        \E k \in 1..n : found[k] = p
                  /\ \A j, k \in 1..n : j < k => found[j] >= found[k]
<1> DEFINE found == Compile(c).network_prefixes[ip.family]
           sizes == Prefixes(c, ip.family)
<1>1. ip.family \in {4, 6} /\ Width(ip.family) \in Nat
    BY CasesOK, WidthIsNatural
<1>2. found = Descending(sizes, LAMBDA p : p)
    <2>1. Compile(c).network_prefixes =
             [family \in {4, 6} |-> Descending(Prefixes(c, family), LAMBDA p : p)]
        BY SnapshotKeys
    <2>2. [family \in {4, 6} |-> Descending(Prefixes(c, family), LAMBDA p : p)][ip.family]
          = Descending(Prefixes(c, ip.family), LAMBDA p : p)
        BY <1>1, Zenon
    <2>3. QED
        BY <2>1, <2>2, Zenon
<1>3. sizes \in SUBSET (0..Width(ip.family))
    BY NetworksOfTarget DEF Prefixes
<1>4. IsFiniteSet(sizes) /\ Cardinality(sizes) \in Nat
    <2>1. IsFiniteSet(0..Width(ip.family))
        BY <1>1, FS_Interval
    <2>2. IsFiniteSet(sizes)
        BY <1>3, <2>1, FS_Subset
    <2>3. QED
        BY <2>2, FS_CardinalityType
<1>5. \A r \in NetworkRows(c) : \A p \in PrefixesOf(r, ip) : p \in sizes
    <2>1. \A p : At(ip, p).family = ip.family /\ At(ip, p).prefix = p
        BY DEF At
    <2>2. QED
        BY <2>1 DEF Prefixes, PrefixesOf
<1> HIDE DEF sizes
<1> DEFINE size == [x \in sizes |-> x]
<1>6. size \in [sizes -> Nat] /\ \A x \in sizes : size[x] = x
    BY <1>3
<1> HIDE DEF size
<1>7. \E order \in [1..Cardinality(sizes) -> sizes] :
         /\ {order[k] : k \in DOMAIN order} = sizes
         /\ \A j, k \in DOMAIN order : j < k => size[order[j]] >= size[order[k]]
    BY <1>4, <1>6, SortedOrder
<1>8. \E order \in [1..Cardinality(sizes) -> sizes] :
         /\ {order[k] : k \in DOMAIN order} = sizes
         /\ \A j, k \in DOMAIN order : j < k => order[j] >= order[k]
    BY <1>6, <1>7
<1> DEFINE d == Descending(sizes, LAMBDA p : p)
<1>9. /\ d \in [1..Cardinality(sizes) -> sizes]
      /\ {d[k] : k \in DOMAIN d} = sizes
      /\ \A j, k \in DOMAIN d : j < k => d[j] >= d[k]
    BY <1>8 DEF Descending
<1> HIDE DEF found, d
<1>10. /\ found \in [1..Cardinality(sizes) -> sizes]
       /\ {found[k] : k \in DOMAIN found} = sizes
       /\ \A j, k \in DOMAIN found : j < k => found[j] >= found[k]
    BY <1>2, <1>9 DEF d
<1>11. DOMAIN found = 1..Cardinality(sizes)
    BY <1>10
<1>12. QED
    BY <1>3, <1>4, <1>5, <1>10, <1>11 DEF found

\* The first hit of a loop.
LEMMA FirstAnswerIsFirst ==
    ASSUME NEW n \in Nat, NEW hits \in SUBSET (1..n), hits # {}
    PROVE  \E m \in hits :
              /\ (CHOOSE k \in hits : \A j \in hits : k <= j) = m
              /\ \A j \in hits : m <= j
<1>1. hits \in SUBSET Nat
    OBVIOUS
<1>2. QED
    BY <1>1, FirstHit

LEMMA ClientFound ==
    ASSUME NEW c, Known(c), NEW ip, NEW t, NEW white
    PROVE  ClientScope(Compile(c), ip, t, white)
           = Compiled(c, First(ClientRows(c, ip), t, white))
<1>1. ClientRows(c, ip) \in SUBSET c.scopes
    BY DEF ClientRows
<1>2. {s \in Compile(c).client_scopes : s.target = ip}
      = {CompileScope(Order(c), r) : r \in ClientRows(c, ip)}
    BY ClientIndex
<1>3. QED
    BY <1>1, <1>2, ScheduledScopeIsFirst DEF ClientScope

\* Under `name` the row `r` is the first of those whose suffix it has.
FirstUnder(c, name, t, white, r) ==
    /\ r \in Eligible(WildRows(c), t, white)
    /\ EndsWith(name, r.target.name)
    /\ \A s \in Eligible(WildRows(c), t, white) :
          EndsWith(name, s.target.name) =>
             \/ Len(s.target.name) < Len(r.target.name)
             \/ s.target.name = r.target.name /\ r.id <= s.id

LEMMA HostnameFound ==
    ASSUME NEW c, Known(c), NEW ip, NEW t, NEW white
    PROVE  LET name == c.identities[ip]
               found == HostnameScope(Compile(c), ip, t, white)
               exact == First(ExactRows(c, name), t, white)
           IN  /\ name = Nobody => found = Nobody
               /\ name # Nobody /\ Eligible(ExactRows(c, name), t, white) # {} =>
                     found = Compiled(c, exact)
               /\ name # Nobody /\ Eligible(ExactRows(c, name), t, white) = {} =>
                     \/ /\ found = Nobody
                        /\ \A r \in Eligible(WildRows(c), t, white) :
                              ~EndsWith(name, r.target.name)
                     \/ \E r : /\ found = CompileScope(Order(c), r)
                               /\ FirstUnder(c, name, t, white, r)
<1> DEFINE name == c.identities[ip]
           found == HostnameScope(Compile(c), ip, t, white)
           exact == First(ExactRows(c, name), t, white)
           keys == Compile(c).wildcard_suffixes
           Looked(suffix) ==
               IF EndsWith(Compile(c).identities[ip], suffix)
               THEN FirstScheduledScope({s \in Compile(c).wildcard_hostname_scopes :
                                            s.target.name = suffix}, t, white)
               ELSE Nobody
           Under(suffix) == IF EndsWith(name, suffix)
                            THEN Compiled(c, First(RowsUnder(c, suffix), t, white))
                            ELSE Nobody
           hits == {k \in DOMAIN keys : Under(keys[k]) # Nobody}
           lookedExact == FirstScheduledScope({s \in Compile(c).exact_hostname_scopes :
                              s.target.name = Compile(c).identities[ip]}, t, white)
<1>1. Compile(c).identities[ip] = name
    BY SnapshotFields
<1>2. found = IF name = Nobody THEN Nobody
              ELSE IF lookedExact # Nobody THEN lookedExact
              ELSE FirstAnswer(keys, Looked)
    <2>1. found = IF Compile(c).identities[ip] = Nobody THEN Nobody
                  ELSE IF lookedExact # Nobody THEN lookedExact
                  ELSE FirstAnswer(keys, Looked)
        BY Zenon DEF HostnameScope
    <2> HIDE DEF found, name, lookedExact, Looked
    <2>2. QED
        BY <1>1, <2>1
<1>3. lookedExact = Compiled(c, exact)
    <2>1. ExactRows(c, name) \in SUBSET c.scopes
        BY DEF ExactRows
    <2>2. {s \in Compile(c).exact_hostname_scopes : s.target.name = name}
          = {CompileScope(Order(c), r) : r \in ExactRows(c, name)}
        BY ExactIndex
    <2>3. QED
        BY <1>1, <2>1, <2>2, ScheduledScopeIsFirst
<1>4. ASSUME NEW suffix
      PROVE  Looked(suffix) = Under(suffix)
    <2>1. RowsUnder(c, suffix) \in SUBSET c.scopes
        BY DEF RowsUnder, WildRows
    <2>2. {s \in Compile(c).wildcard_hostname_scopes : s.target.name = suffix}
          = {CompileScope(Order(c), r) : r \in RowsUnder(c, suffix)}
        BY WildcardIndex
    <2>3. QED
        BY <1>1, <2>1, <2>2, ScheduledScopeIsFirst
<1> HIDE DEF Looked
<1>5. FirstAnswer(keys, Looked)
      = IF {k \in DOMAIN keys : Looked(keys[k]) # Nobody} = {} THEN Nobody
        ELSE Looked(keys[CHOOSE k \in {k \in DOMAIN keys : Looked(keys[k]) # Nobody} :
                            \A j \in {i \in DOMAIN keys : Looked(keys[i]) # Nobody} : k <= j])
    BY DEF FirstAnswer
<1>6. {k \in DOMAIN keys : Looked(keys[k]) # Nobody} = hits
    BY <1>4
<1>7. FirstAnswer(keys, Looked)
      = IF hits = {} THEN Nobody
        ELSE Under(keys[CHOOSE k \in hits : \A j \in hits : k <= j])
    BY <1>4, <1>5, <1>6
<1>8. name # Nobody /\ Eligible(ExactRows(c, name), t, white) # {} =>
         found = Compiled(c, exact)
    <2>1. ExactRows(c, name) \in SUBSET c.scopes
        BY DEF ExactRows
    <2>2. Eligible(ExactRows(c, name), t, white) # {} => Compiled(c, exact) # Nobody
        BY <2>1, FirstIsOldest
    <2>3. QED
        BY <1>2, <1>3, <2>2
<1>9. ASSUME name # Nobody, Eligible(ExactRows(c, name), t, white) = {}
      PROVE  \/ /\ found = Nobody
                /\ \A r \in Eligible(WildRows(c), t, white) :
                      ~EndsWith(name, r.target.name)
             \/ \E r : /\ found = CompileScope(Order(c), r)
                       /\ FirstUnder(c, name, t, white, r)
    <2>1. ExactRows(c, name) \in SUBSET c.scopes
        BY DEF ExactRows
    <2>2. Compiled(c, exact) = Nobody
        BY <1>9, <2>1, FirstIsOldest
    <2>3. found = IF hits = {} THEN Nobody
                  ELSE Under(keys[CHOOSE k \in hits : \A j \in hits : k <= j])
        BY <1>2, <1>3, <1>7, <1>9, <2>2
    <2>4. PICK n \in Nat :
              /\ DOMAIN keys = 1..n
              /\ \A k \in 1..n : keys[k] \in {r.target.name : r \in WildRows(c)}
              /\ \A r \in WildRows(c) : \E k \in 1..n : keys[k] = r.target.name
              /\ \A j, k \in 1..n : j < k => Len(keys[j]) >= Len(keys[k])
        BY SuffixesInOrder
    <2> HIDE DEF keys, name, found
    <2>5. \A suffix : RowsUnder(c, suffix) \in SUBSET c.scopes
        BY DEF RowsUnder, WildRows
    <2>6. \A k \in 1..n : k \in hits <=>
             /\ EndsWith(name, keys[k])
             /\ Eligible(RowsUnder(c, keys[k]), t, white) # {}
        BY <2>4, <2>5, FirstIsOldest
    <2>7. \A s \in Eligible(WildRows(c), t, white) :
             EndsWith(name, s.target.name) =>
                \E k \in hits : /\ keys[k] = s.target.name
                                /\ s \in Eligible(RowsUnder(c, keys[k]), t, white)
        <3>1. SUFFICES ASSUME NEW s \in Eligible(WildRows(c), t, white),
                              EndsWith(name, s.target.name)
                       PROVE  \E k \in hits :
                                 /\ keys[k] = s.target.name
                                 /\ s \in Eligible(RowsUnder(c, keys[k]), t, white)
            OBVIOUS
        <3>2. s \in WildRows(c)
            BY DEF Eligible
        <3>3. PICK k \in 1..n : keys[k] = s.target.name
            BY <2>4, <3>2
        <3>4. s \in Eligible(RowsUnder(c, keys[k]), t, white)
            BY <3>2, <3>3 DEF Eligible, RowsUnder
        <3>5. k \in hits
            BY <2>6, <3>1, <3>3, <3>4
        <3>6. QED
            BY <3>3, <3>4, <3>5
    <2>8. CASE hits = {}
        BY <2>3, <2>7, <2>8
    <2>9. CASE hits # {}
        <3>1. hits \in SUBSET (1..n)
            BY <2>4
        <3> HIDE DEF hits
        <3>2. PICK m \in hits : /\ (CHOOSE k \in hits : \A j \in hits : k <= j) = m
                                /\ \A j \in hits : m <= j
            BY <2>9, <3>1, FirstAnswerIsFirst
        <3>3. m \in 1..n /\ EndsWith(name, keys[m])
              /\ Eligible(RowsUnder(c, keys[m]), t, white) # {}
            BY <2>6, <3>1, <3>2
        <3>4. found = Compiled(c, First(RowsUnder(c, keys[m]), t, white))
            BY <2>3, <2>9, <3>2, <3>3
        <3>5. PICK r \in Eligible(RowsUnder(c, keys[m]), t, white) :
                  /\ First(RowsUnder(c, keys[m]), t, white) = r
                  /\ \A s \in Eligible(RowsUnder(c, keys[m]), t, white) : r.id <= s.id
            BY <2>5, <3>3, FirstIsOldest
        <3>6. r \in Eligible(WildRows(c), t, white) /\ r.target.name = keys[m] /\ r \in c.scopes
            BY DEF Eligible, RowsUnder, WildRows
        <3>7. found = CompileScope(Order(c), r)
            BY <3>4, <3>5, <3>6 DEF Known, Compiled
        <3>8. ASSUME NEW s \in Eligible(WildRows(c), t, white),
                     EndsWith(name, s.target.name)
              PROVE  \/ Len(s.target.name) < Len(r.target.name)
                     \/ s.target.name = r.target.name /\ r.id <= s.id
            <4>1. PICK k \in hits : /\ keys[k] = s.target.name
                                    /\ s \in Eligible(RowsUnder(c, keys[k]), t, white)
                BY <2>7, <3>8
            <4>2. k \in 1..n /\ m <= k
                BY <3>1, <3>2, <4>1
            <4>3. k = m \/ m < k
                BY <3>3, <4>2
            <4>4. Len(keys[k]) <= Len(keys[m])
                <5>1. Len(keys[m]) \in Nat /\ Len(keys[k]) \in Nat
                    <6>1. \A r2 \in WildRows(c) : Len(r2.target.name) \in Nat
                        BY DEF WildRows, Known, ConfigOK, TargetOK
                    <6>2. QED
                        BY <2>4, <3>3, <4>2, <6>1
                <5>2. QED
                    BY <2>4, <3>3, <4>2, <4>3, <5>1
            <4>5. CASE Len(keys[k]) = Len(keys[m])
                <5>1. keys[k] = keys[m]
                    BY <3>3, <3>8, <4>1, <4>5, SuffixesOfOneLength
                <5>2. r.id <= s.id
                    BY <3>5, <4>1, <5>1
                <5>3. QED
                    BY <3>6, <4>1, <5>1, <5>2
            <4>6. CASE Len(keys[k]) # Len(keys[m])
                <5>1. Len(keys[m]) \in Nat /\ Len(keys[k]) \in Nat
                    <6>1. \A r2 \in WildRows(c) : Len(r2.target.name) \in Nat
                        BY DEF WildRows, Known, ConfigOK, TargetOK
                    <6>2. QED
                        BY <2>4, <3>3, <4>2, <6>1
                <5>2. QED
                    BY <3>6, <4>1, <4>4, <4>6, <5>1
            <4>7. QED
                BY <4>5, <4>6
        <3>9. FirstUnder(c, name, t, white, r)
            BY <3>3, <3>6, <3>8 DEF FirstUnder
        <3>10. QED
            BY <3>7, <3>9
    <2>10. QED
        BY <2>8, <2>9
<1>10. QED
    BY <1>2, <1>8, <1>9

\* Of the rows on schedule that have a network of the client, `r` is the first,
\* by its network of `p` bits.
FirstAt(c, ip, t, white, r, p) ==
    /\ r \in Eligible(NetworkRows(c), t, white)
    /\ p \in PrefixesOf(r, ip)
    /\ \A s \in Eligible(NetworkRows(c), t, white) : \A q \in PrefixesOf(s, ip) :
          q < p \/ (q = p /\ r.id <= s.id)

LEMMA NetworkFound ==
    ASSUME NEW c, Known(c), NEW ip \in Ips, NEW t, NEW white
    PROVE  LET found == NetworkScope(Compile(c), ip, t, white)
           IN  \/ /\ found = Nobody
                  /\ \A r \in Eligible(NetworkRows(c), t, white) : PrefixesOf(r, ip) = {}
               \/ \E r, p : /\ found = CompileScope(Order(c), r)
                            /\ FirstAt(c, ip, t, white, r, p)
<1> DEFINE found == NetworkScope(Compile(c), ip, t, white)
           keys == Compile(c).network_prefixes[ip.family]
           Looked(prefix) ==
               FirstScheduledScope(
                   {s \in Compile(c).network_scopes :
                       [family |-> ip.family, prefix |-> prefix,
                        base |-> NetworkValue(ip, prefix)] \in s.target}, t, white)
           Under(prefix) == Compiled(c, First(RowsAt(c, At(ip, prefix)), t, white))
           hits == {k \in DOMAIN keys : Under(keys[k]) # Nobody}
<1>1. found = FirstAnswer(keys, Looked)
    BY Zenon DEF NetworkScope
<1>2. ASSUME NEW prefix
      PROVE  Looked(prefix) = Under(prefix)
    <2>1. RowsAt(c, At(ip, prefix)) \in SUBSET c.scopes
        BY DEF RowsAt, NetworkRows
    <2>2. {s \in Compile(c).network_scopes : At(ip, prefix) \in s.target}
          = {CompileScope(Order(c), r) : r \in RowsAt(c, At(ip, prefix))}
        BY NetworkIndex
    <2>3. Looked(prefix)
          = FirstScheduledScope({s \in Compile(c).network_scopes :
                                    At(ip, prefix) \in s.target}, t, white)
        BY DEF At
    <2>4. QED
        BY <2>1, <2>2, <2>3, ScheduledScopeIsFirst
<1> HIDE DEF Looked, found
<1>3. FirstAnswer(keys, Looked)
      = IF {k \in DOMAIN keys : Looked(keys[k]) # Nobody} = {} THEN Nobody
        ELSE Looked(keys[CHOOSE k \in {k \in DOMAIN keys : Looked(keys[k]) # Nobody} :
                            \A j \in {i \in DOMAIN keys : Looked(keys[i]) # Nobody} : k <= j])
    BY DEF FirstAnswer
<1>4. {k \in DOMAIN keys : Looked(keys[k]) # Nobody} = hits
    BY <1>2
<1>5. found = IF hits = {} THEN Nobody
              ELSE Under(keys[CHOOSE k \in hits : \A j \in hits : k <= j])
    BY <1>1, <1>2, <1>3, <1>4
<1>6. PICK n \in Nat :
          /\ DOMAIN keys = 1..n
          /\ \A k \in 1..n : keys[k] \in 0..Width(ip.family)
          /\ \A r \in NetworkRows(c) : \A p \in PrefixesOf(r, ip) : \E k \in 1..n : keys[k] = p
          /\ \A j, k \in 1..n : j < k => keys[j] >= keys[k]
    BY PrefixesInOrder
<1> HIDE DEF keys
<1>7. \A k \in 1..n : keys[k] \in Nat
    BY <1>6, WidthIsNatural
<1>8. \A network : RowsAt(c, network) \in SUBSET c.scopes
    BY DEF RowsAt, NetworkRows
<1>9. \A k \in 1..n : k \in hits <=> Eligible(RowsAt(c, At(ip, keys[k])), t, white) # {}
    BY <1>6, <1>8, FirstIsOldest
<1>10. ASSUME NEW s \in Eligible(NetworkRows(c), t, white), NEW q \in PrefixesOf(s, ip)
       PROVE  \E k \in hits : /\ keys[k] = q
                              /\ s \in Eligible(RowsAt(c, At(ip, keys[k])), t, white)
    <2>1. s \in NetworkRows(c)
        BY DEF Eligible
    <2>2. PICK k \in 1..n : keys[k] = q
        BY <1>6, <2>1
    <2>3. s \in Eligible(RowsAt(c, At(ip, keys[k])), t, white)
        BY <2>1, <2>2 DEF Eligible, RowsAt, PrefixesOf
    <2>4. k \in hits
        BY <1>9, <2>2, <2>3
    <2>5. QED
        BY <2>2, <2>3, <2>4
<1>11. CASE hits = {}
    BY <1>5, <1>10, <1>11 DEF found
<1>12. CASE hits # {}
    <2>1. hits \in SUBSET (1..n)
        BY <1>6
    <2> HIDE DEF hits
    <2>2. PICK m \in hits : /\ (CHOOSE k \in hits : \A j \in hits : k <= j) = m
                            /\ \A j \in hits : m <= j
        BY <1>12, <2>1, FirstAnswerIsFirst
    <2>3. m \in 1..n /\ Eligible(RowsAt(c, At(ip, keys[m])), t, white) # {}
        BY <1>9, <2>1, <2>2
    <2>4. found = Compiled(c, First(RowsAt(c, At(ip, keys[m])), t, white))
        BY <1>5, <1>12, <2>2
    <2>5. PICK r \in Eligible(RowsAt(c, At(ip, keys[m])), t, white) :
              /\ First(RowsAt(c, At(ip, keys[m])), t, white) = r
              /\ \A s \in Eligible(RowsAt(c, At(ip, keys[m])), t, white) : r.id <= s.id
        BY <1>8, <2>3, FirstIsOldest
    <2>6. /\ r \in Eligible(NetworkRows(c), t, white) /\ r \in c.scopes
          /\ At(ip, keys[m]) \in r.target
        BY DEF Eligible, RowsAt, NetworkRows
    <2>7. keys[m] \in PrefixesOf(r, ip)
        BY <1>6, <2>3, <2>6 DEF PrefixesOf
    <2>8. found = CompileScope(Order(c), r)
        BY <2>4, <2>5, <2>6 DEF Known, Compiled
    <2>9. ASSUME NEW s \in Eligible(NetworkRows(c), t, white), NEW q \in PrefixesOf(s, ip)
          PROVE  q < keys[m] \/ (q = keys[m] /\ r.id <= s.id)
        <3>1. PICK k \in hits : /\ keys[k] = q
                                /\ s \in Eligible(RowsAt(c, At(ip, keys[k])), t, white)
            BY <1>10
        <3>2. k \in 1..n /\ m <= k
            BY <2>1, <2>2, <3>1
        <3>3. keys[m] \in Nat /\ keys[k] \in Nat
            BY <1>7, <2>3, <3>2
        <3>4. k = m \/ m < k
            BY <2>3, <3>2
        <3>5. keys[k] <= keys[m]
            BY <1>6, <2>3, <3>2, <3>3, <3>4
        <3>6. keys[k] = keys[m] => r.id <= s.id
            BY <2>5, <3>1
        <3>7. QED
            BY <3>1, <3>3, <3>5, <3>6
    <2>10. FirstAt(c, ip, t, white, r, keys[m])
        BY <2>6, <2>7, <2>9 DEF FirstAt
    <2>11. QED
        BY <2>8, <2>10 DEF found
<1>13. QED
    BY <1>11, <1>12 DEF found

-----------------------------------------------------------------------------
(* The target that is found is the one that the documented order puts      *)
(* first.                                                                  *)

LEMMA PlaceOfMatch ==
    ASSUME NEW c, Known(c), NEW ip \in Ips, NEW t, NEW white, NEW s \in c.scopes,
           white => s.whitelisted, Specificity(c, s, ip, t) # Nobody
    PROVE  LET name == c.identities[ip]
               place == Specificity(c, s, ip, t)
           IN  \/ s \in Eligible(ClientRows(c, ip), t, white) /\ place = <<4, 0>>
               \/ /\ name # Nobody /\ s \in Eligible(ExactRows(c, name), t, white)
                  /\ place = <<3, 0>>
               \/ /\ name # Nobody /\ s \in Eligible(WildRows(c), t, white)
                  /\ EndsWith(name, s.target.name) /\ place = <<2, Len(s.target.name)>>
               \/ /\ s \in Eligible(NetworkRows(c), t, white)
                  /\ \E p \in PrefixesOf(s, ip) : place = <<1, p>>
<1> DEFINE name == c.identities[ip]
           place == Specificity(c, s, ip, t)
<1>1. t \in s.hours
    BY SpecificityOfRow
<1>2. s.kind \in {"client", "hostname", "network"}
    BY DEF Known, ConfigOK, TargetOK
<1>3. CASE s.kind = "client"
    <2>1. s \in ClientRows(c, ip) /\ place = <<4, 0>>
        BY <1>1, <1>3, SpecificityOfRow
    <2>2. QED
        BY <1>1, <2>1 DEF Eligible
<1>4. CASE s.kind = "hostname"
    <2>1. place = IF name = Nobody THEN Nobody
                  ELSE IF s \in ExactRows(c, name) THEN <<3, 0>>
                  ELSE IF s \in WildRows(c) /\ EndsWith(name, s.target.name)
                       THEN <<2, Len(s.target.name)>>
                  ELSE Nobody
        BY <1>1, <1>4, SpecificityOfRow
    <2> HIDE DEF place, name
    <2>2. place # Nobody
        BY DEF place
    <2>3. \/ name # Nobody /\ s \in ExactRows(c, name) /\ place = <<3, 0>>
          \/ /\ name # Nobody /\ s \in WildRows(c)
             /\ EndsWith(name, s.target.name) /\ place = <<2, Len(s.target.name)>>
        BY <2>1, <2>2
    <2>4. \A K : s \in K => s \in Eligible(K, t, white)
        BY <1>1 DEF Eligible
    <2>5. QED
        BY <2>3, <2>4 DEF place, name
<1>5. CASE s.kind = "network"
    <2>1. PrefixesOf(s, ip) # {}
        BY <1>1, <1>5, SpecificityOfRow
    <2>2. PrefixesOf(s, ip) \in SUBSET (0..Width(ip.family)) /\ Width(ip.family) \in Nat
        BY WidthIsNatural DEF PrefixesOf
    <2>3. PICK p \in PrefixesOf(s, ip) : \A q \in PrefixesOf(s, ip) : q <= p
        BY <2>1, <2>2, GreatestNatural
    <2>4. place = <<1, p>>
        BY <1>1, <1>5, <2>1, <2>3, SpecificityOfRow
    <2>5. s \in Eligible(NetworkRows(c), t, white)
        BY <1>1, <1>5 DEF Eligible, NetworkRows
    <2>6. QED
        BY <2>3, <2>4, <2>5
<1>6. QED
    BY <1>2, <1>3, <1>4, <1>5

LEMMA PlaceOfEligible ==
    ASSUME NEW c, Known(c), NEW ip \in Ips, NEW t, NEW white
    PROVE  LET name == c.identities[ip]
           IN  /\ \A r \in Eligible(ClientRows(c, ip), t, white) :
                     Specificity(c, r, ip, t) = <<4, 0>>
               /\ name # Nobody => \A r \in Eligible(ExactRows(c, name), t, white) :
                     Specificity(c, r, ip, t) = <<3, 0>>
               /\ name # Nobody => \A r \in Eligible(WildRows(c), t, white) :
                     EndsWith(name, r.target.name) =>
                        Specificity(c, r, ip, t) = <<2, Len(r.target.name)>>
               /\ \A r \in Eligible(NetworkRows(c), t, white) : \A p \in PrefixesOf(r, ip) :
                     (\A q \in PrefixesOf(r, ip) : q <= p) =>
                        Specificity(c, r, ip, t) = <<1, p>>
<1> DEFINE name == c.identities[ip]
<1>1. ASSUME NEW r \in Eligible(ClientRows(c, ip), t, white)
      PROVE  Specificity(c, r, ip, t) = <<4, 0>>
    <2>1. r \in c.scopes /\ t \in r.hours /\ r.kind = "client" /\ r \in ClientRows(c, ip)
        BY DEF Eligible, ClientRows
    <2>2. QED
        BY <2>1, SpecificityOfRow
<1>2. ASSUME name # Nobody, NEW r \in Eligible(ExactRows(c, name), t, white)
      PROVE  Specificity(c, r, ip, t) = <<3, 0>>
    <2>1. r \in c.scopes /\ t \in r.hours /\ r.kind = "hostname" /\ r \in ExactRows(c, name)
        BY DEF Eligible, ExactRows
    <2>2. QED
        BY <1>2, <2>1, SpecificityOfRow
<1>3. ASSUME name # Nobody, NEW r \in Eligible(WildRows(c), t, white),
             EndsWith(name, r.target.name)
      PROVE  Specificity(c, r, ip, t) = <<2, Len(r.target.name)>>
    <2>1. /\ r \in c.scopes /\ t \in r.hours /\ r.kind = "hostname" /\ r \in WildRows(c)
          /\ r \notin ExactRows(c, name)
        BY DEF Eligible, WildRows, ExactRows
    <2>2. QED
        BY <1>3, <2>1, SpecificityOfRow
<1>4. ASSUME NEW r \in Eligible(NetworkRows(c), t, white), NEW p \in PrefixesOf(r, ip),
             \A q \in PrefixesOf(r, ip) : q <= p
      PROVE  Specificity(c, r, ip, t) = <<1, p>>
    <2>1. r \in c.scopes /\ t \in r.hours /\ r.kind = "network"
        BY DEF Eligible, NetworkRows
    <2>2. PrefixesOf(r, ip) # {}
        OBVIOUS
    <2>3. QED
        BY <1>4, <2>1, <2>2, SpecificityOfRow
<1>5. QED
    BY <1>1, <1>2, <1>3, <1>4

\* Whoever beats every other is the winner.
LEMMA WinnerIsBest ==
    ASSUME NEW c, Known(c), NEW ip, NEW t, NEW K \in SUBSET c.scopes, NEW r \in K,
           Specificity(c, r, ip, t) # Nobody,
           \A s \in K : Specificity(c, s, ip, t) # Nobody =>
              /\ Specificity(c, s, ip, t)[1] \in Nat /\ Specificity(c, s, ip, t)[2] \in Nat
              /\ Beats(c, r, s, ip, t)
    PROVE  Winner(c, K, ip, t) = r
<1> DEFINE P(s) == Specificity(c, s, ip, t)
           matching == {s \in K : P(s) # Nobody}
<1>1. IdsAreKeys(c.scopes)
    BY DEF Known, ConfigOK
<1>2. \A s \in matching : Beats(c, r, s, ip, t) /\ P(s)[1] \in Nat /\ P(s)[2] \in Nat
    OBVIOUS
<1>3. r \in matching
    OBVIOUS
<1>4. ASSUME NEW s \in matching, \A other \in matching : Beats(c, s, other, ip, t)
      PROVE  s = r
    <2>1. Beats(c, s, r, ip, t) /\ Beats(c, r, s, ip, t)
        BY <1>2, <1>3, <1>4
    <2>2. /\ P(s)[1] > P(r)[1] \/ (P(s)[1] = P(r)[1] /\ P(s)[2] > P(r)[2])
             \/ (P(s) = P(r) /\ s.id <= r.id)
          /\ P(r)[1] > P(s)[1] \/ (P(r)[1] = P(s)[1] /\ P(r)[2] > P(s)[2])
             \/ (P(r) = P(s) /\ r.id <= s.id)
        BY <2>1 DEF Beats
    <2>3. P(s)[1] \in Nat /\ P(s)[2] \in Nat /\ P(r)[1] \in Nat /\ P(r)[2] \in Nat
        BY <1>2, <1>3
    <2> HIDE DEF P
    <2>4. s.id <= r.id /\ r.id <= s.id
        BY <2>2, <2>3
    <2>5. s \in c.scopes /\ r \in c.scopes
        OBVIOUS
    <2>6. s.id \in Nat /\ r.id \in Nat
        BY <1>1, <2>5 DEF IdsAreKeys
    <2>7. s.id = r.id
        BY <2>4, <2>6
    <2>8. QED
        BY <1>1, <2>5, <2>7 DEF IdsAreKeys
<1>5. Winner(c, K, ip, t)
      = IF matching = {} THEN Nobody
        ELSE CHOOSE s \in matching : \A other \in matching : Beats(c, s, other, ip, t)
    BY DEF Winner
<1> HIDE DEF matching
<1>6. QED
    BY <1>2, <1>3, <1>4, <1>5

LEMMA FirstOfThree ==
    ASSUME NEW a, NEW b, NEW d
    PROVE  FirstScope(<<a, b, d>>)
           = IF a # Nobody THEN a ELSE IF b # Nobody THEN b ELSE d
<1> DEFINE s == <<a, b, d>>
           hits == {k \in DOMAIN s : s[k] # Nobody}
<1>1. FirstScope(s) = IF hits = {} THEN Nobody
                      ELSE s[CHOOSE k \in hits : \A j \in hits : k <= j]
    BY DEF FirstScope, FirstAnswer
<1>2. DOMAIN s = 1..3 /\ s[1] = a /\ s[2] = b /\ s[3] = d
    OBVIOUS
<1> HIDE DEF s
<1>3. hits \in SUBSET (1..3)
    BY <1>2
<1>4. \A k \in 1..3 : k \in hits <=> s[k] # Nobody
    BY <1>2
<1> HIDE DEF hits
<1>5. CASE hits = {}
    BY <1>1, <1>2, <1>4, <1>5 DEF s
<1>6. CASE hits # {}
    <2>1. PICK m \in hits : /\ (CHOOSE k \in hits : \A j \in hits : k <= j) = m
                            /\ \A j \in hits : m <= j
        BY <1>3, <1>6, FirstAnswerIsFirst
    <2>2. FirstScope(s) = s[m]
        BY <1>1, <1>6, <2>1
    <2>3. m \in {1, 2, 3}
        BY <1>3
    <2>4. CASE m = 1
        BY <1>2, <1>4, <2>1, <2>2, <2>4 DEF s
    <2>5. CASE m = 2
        <3>1. 1 \notin hits
            BY <2>1, <2>5
        <3>2. QED
            BY <1>2, <1>4, <2>1, <2>2, <2>5, <3>1 DEF s
    <2>6. CASE m = 3
        <3>1. 1 \notin hits /\ 2 \notin hits
            BY <2>1, <2>6
        <3>2. QED
            BY <1>2, <1>4, <2>1, <2>2, <2>6, <3>1 DEF s
    <2>7. QED
        BY <2>3, <2>4, <2>5, <2>6
<1>7. QED
    BY <1>5, <1>6

LEMMA ScopeIsWinner ==
    ASSUME NEW c, Known(c), NEW ip \in Ips, NEW t, NEW white
    PROVE  LET K == {r \in c.scopes : white => r.whitelisted}
           IN  /\ FirstScope(MatchingScopes(Compile(c), ip, t, white))
                  = Compiled(c, Winner(c, K, ip, t))
               /\ Winner(c, K, ip, t) \in K \cup {Nobody}
<1> DEFINE name == c.identities[ip]
           K == {r \in c.scopes : white => r.whitelisted}
           P(s) == Specificity(c, s, ip, t)
           client == ClientScope(Compile(c), ip, t, white)
           host == HostnameScope(Compile(c), ip, t, white)
           net == NetworkScope(Compile(c), ip, t, white)
           found == FirstScope(MatchingScopes(Compile(c), ip, t, white))
           byClient == Eligible(ClientRows(c, ip), t, white)
           byName == Eligible(ExactRows(c, name), t, white)
           byParent == Eligible(WildRows(c), t, white)
           byNet == Eligible(NetworkRows(c), t, white)
<1>1. found = IF client # Nobody THEN client ELSE IF host # Nobody THEN host ELSE net
    BY FirstOfThree DEF MatchingScopes
<1>2. ASSUME NEW s \in K, P(s) # Nobody
      PROVE  /\ P(s)[1] \in Nat /\ P(s)[2] \in Nat
             /\ \/ s \in byClient /\ P(s) = <<4, 0>>
                \/ name # Nobody /\ s \in byName /\ P(s) = <<3, 0>>
                \/ /\ name # Nobody /\ s \in byParent
                   /\ EndsWith(name, s.target.name) /\ P(s) = <<2, Len(s.target.name)>>
                \/ s \in byNet /\ \E p \in PrefixesOf(s, ip) : P(s) = <<1, p>>
    <2>1. s \in c.scopes /\ (white => s.whitelisted)
        OBVIOUS
    <2>2. \/ s \in byClient /\ P(s) = <<4, 0>>
          \/ name # Nobody /\ s \in byName /\ P(s) = <<3, 0>>
          \/ /\ name # Nobody /\ s \in byParent
             /\ EndsWith(name, s.target.name) /\ P(s) = <<2, Len(s.target.name)>>
          \/ s \in byNet /\ \E p \in PrefixesOf(s, ip) : P(s) = <<1, p>>
        BY <1>2, <2>1, PlaceOfMatch
    <2>3. s \in byParent => Len(s.target.name) \in Nat
        BY DEF Eligible, WildRows, Known, ConfigOK, TargetOK
    <2>4. \A p \in PrefixesOf(s, ip) : p \in Nat
        BY WidthIsNatural DEF PrefixesOf
    <2> HIDE DEF P, byClient, byName, byParent, byNet
    <2>5. QED
        BY <2>2, <2>3, <2>4
<1>3. /\ \A r \in byClient : P(r) = <<4, 0>>
      /\ name # Nobody => \A r \in byName : P(r) = <<3, 0>>
      /\ name # Nobody => \A r \in byParent :
            EndsWith(name, r.target.name) => P(r) = <<2, Len(r.target.name)>>
      /\ \A r \in byNet : \A p \in PrefixesOf(r, ip) :
            (\A q \in PrefixesOf(r, ip) : q <= p) => P(r) = <<1, p>>
    BY PlaceOfEligible
<1>4. /\ byClient \in SUBSET K /\ byName \in SUBSET K
      /\ byParent \in SUBSET K /\ byNet \in SUBSET K
    BY DEF Eligible, ClientRows, ExactRows, WildRows, NetworkRows
<1>5. ASSUME NEW r \in K, P(r) # Nobody,
             \A s \in K : P(s) # Nobody => Beats(c, r, s, ip, t),
             found = CompileScope(Order(c), r)
      PROVE  found = Compiled(c, Winner(c, K, ip, t)) /\ Winner(c, K, ip, t) \in K
    <2>1. K \in SUBSET c.scopes
        OBVIOUS
    <2>2. \A s \in K : P(s) # Nobody => P(s)[1] \in Nat /\ P(s)[2] \in Nat
        BY <1>2
    <2> HIDE DEF K, found
    <2>3. Winner(c, K, ip, t) = r
        BY <1>5, <2>1, <2>2, WinnerIsBest
    <2>4. QED
        BY <1>5, <2>1, <2>3 DEF Compiled, Known
<1>6. ASSUME \A s \in K : P(s) = Nobody
      PROVE  Winner(c, K, ip, t) = Nobody
    BY <1>6 DEF Winner
<1>7. \A r, s : Beats(c, r, s, ip, t) <=>
                   \/ P(r)[1] > P(s)[1]
                   \/ P(r)[1] = P(s)[1] /\ P(r)[2] > P(s)[2]
                   \/ P(r) = P(s) /\ r.id <= s.id
    BY DEF Beats
<1>8. client = Compiled(c, First(ClientRows(c, ip), t, white))
    BY ClientFound
<1>9. /\ ClientRows(c, ip) \in SUBSET c.scopes /\ ExactRows(c, name) \in SUBSET c.scopes
    BY DEF ClientRows, ExactRows
<1>10. /\ name = Nobody => host = Nobody
       /\ name # Nobody /\ byName # {} =>
             host = Compiled(c, First(ExactRows(c, name), t, white))
       /\ name # Nobody /\ byName = {} =>
             \/ host = Nobody /\ \A r \in byParent : ~EndsWith(name, r.target.name)
             \/ \E r : host = CompileScope(Order(c), r) /\ FirstUnder(c, name, t, white, r)
    BY HostnameFound
<1>11. \/ net = Nobody /\ \A r \in byNet : PrefixesOf(r, ip) = {}
       \/ \E r, p : net = CompileScope(Order(c), r) /\ FirstAt(c, ip, t, white, r, p)
    BY NetworkFound
<1>12. \A r \in K : Nobody # r /\ Nobody # CompileScope(Order(c), r)
    BY DEF Known
<1>13. Nobody \notin Nat \X Nat
    BY NobodyIsNothing
<1>14. byClient # {} =>
          \E r \in byClient : /\ client = CompileScope(Order(c), r) /\ client # Nobody
                              /\ \A s \in byClient : r.id <= s.id
    <2>1. ASSUME byClient # {}
          PROVE  \E r \in byClient : /\ client = CompileScope(Order(c), r) /\ client # Nobody
                                     /\ \A s \in byClient : r.id <= s.id
        <3>1. /\ First(ClientRows(c, ip), t, white) \in byClient
              /\ \A s \in byClient : First(ClientRows(c, ip), t, white).id <= s.id
            BY <1>9, <2>1, FirstIsOldest
        <3>2. client = CompileScope(Order(c), First(ClientRows(c, ip), t, white))
            BY <1>4, <1>8, <1>12, <3>1 DEF Compiled
        <3>3. QED
            BY <1>4, <1>12, <3>1, <3>2
    <2>2. QED
        BY <2>1
<1>15. byClient = {} => client = Nobody
    BY <1>8, <1>9, FirstIsOldest
<1>16. name # Nobody /\ byName # {} =>
          \E r \in byName : /\ host = CompileScope(Order(c), r) /\ host # Nobody
                            /\ \A s \in byName : r.id <= s.id
    <2>1. ASSUME name # Nobody, byName # {}
          PROVE  \E r \in byName : /\ host = CompileScope(Order(c), r) /\ host # Nobody
                                   /\ \A s \in byName : r.id <= s.id
        <3>1. /\ First(ExactRows(c, name), t, white) \in byName
              /\ \A s \in byName : First(ExactRows(c, name), t, white).id <= s.id
            BY <1>9, <2>1, FirstIsOldest
        <3>2. host = CompileScope(Order(c), First(ExactRows(c, name), t, white))
            BY <1>4, <1>10, <1>12, <2>1, <3>1 DEF Compiled
        <3>3. QED
            BY <1>4, <1>12, <3>1, <3>2
    <2>2. QED
        BY <2>1
<1>17. \A r : FirstUnder(c, name, t, white, r) <=>
                 /\ r \in byParent
                 /\ EndsWith(name, r.target.name)
                 /\ \A s \in byParent :
                       EndsWith(name, s.target.name) =>
                          \/ Len(s.target.name) < Len(r.target.name)
                          \/ s.target.name = r.target.name /\ r.id <= s.id
    BY DEF FirstUnder
<1>18. \A r, p : FirstAt(c, ip, t, white, r, p) <=>
                 /\ r \in byNet
                 /\ p \in PrefixesOf(r, ip)
                 /\ \A s \in byNet : \A q \in PrefixesOf(s, ip) :
                       q < p \/ (q = p /\ r.id <= s.id)
    BY DEF FirstAt
<1>19. \A s \in byParent : Len(s.target.name) \in Nat
    BY DEF Eligible, WildRows, Known, ConfigOK, TargetOK
<1>20. \A s : \A p \in PrefixesOf(s, ip) : p \in Nat
    BY WidthIsNatural DEF PrefixesOf
<1>21. SUFFICES /\ found = Compiled(c, Winner(c, K, ip, t))
                /\ Winner(c, K, ip, t) \in K \cup {Nobody}
    OBVIOUS
<1> HIDE DEF found, client, host, net, byClient, byName, byParent, byNet, K, P, name
<1>22. CASE byClient # {}
    <2>1. PICK r \in byClient : /\ client = CompileScope(Order(c), r) /\ client # Nobody
                                /\ \A s \in byClient : r.id <= s.id
        BY <1>14, <1>22
    <2>2. r \in K /\ P(r) = <<4, 0>>
        BY <1>3, <1>4
    <2>3. P(r) # Nobody
        BY <1>13, <2>2
    <2>4. ASSUME NEW s \in K, P(s) # Nobody
          PROVE  Beats(c, r, s, ip, t)
        BY <1>2, <1>7, <2>1, <2>2, <2>4
    <2>5. QED
        BY <1>1, <1>5, <2>1, <2>2, <2>3, <2>4
<1>23. CASE byClient = {} /\ name # Nobody /\ byName # {}
    <2>1. PICK r \in byName : /\ host = CompileScope(Order(c), r) /\ host # Nobody
                              /\ \A s \in byName : r.id <= s.id
        BY <1>16, <1>23
    <2>2. r \in K /\ P(r) = <<3, 0>>
        BY <1>3, <1>4, <1>23
    <2>3. P(r) # Nobody
        BY <1>13, <2>2
    <2>4. ASSUME NEW s \in K, P(s) # Nobody
          PROVE  Beats(c, r, s, ip, t)
        BY <1>2, <1>7, <1>23, <2>1, <2>2, <2>4
    <2>5. QED
        BY <1>1, <1>5, <1>15, <1>23, <2>1, <2>2, <2>3, <2>4
<1>24. CASE byClient = {} /\ name # Nobody /\ byName = {} /\ host # Nobody
    <2>1. PICK r : host = CompileScope(Order(c), r) /\ FirstUnder(c, name, t, white, r)
        BY <1>10, <1>24
    <2>2. /\ r \in byParent /\ EndsWith(name, r.target.name)
          /\ \A s \in byParent :
                EndsWith(name, s.target.name) =>
                   \/ Len(s.target.name) < Len(r.target.name)
                   \/ s.target.name = r.target.name /\ r.id <= s.id
        BY <1>17, <2>1
    <2>3. r \in K /\ P(r) = <<2, Len(r.target.name)>>
        BY <1>3, <1>4, <1>24, <2>2
    <2>4. P(r) # Nobody /\ Len(r.target.name) \in Nat
        BY <1>13, <1>19, <2>2, <2>3
    <2>5. ASSUME NEW s \in K, P(s) # Nobody
          PROVE  Beats(c, r, s, ip, t)
        <3>1. \/ /\ s \in byParent /\ EndsWith(name, s.target.name)
                 /\ P(s) = <<2, Len(s.target.name)>>
              \/ s \in byNet /\ \E p \in PrefixesOf(s, ip) : P(s) = <<1, p>>
            BY <1>2, <1>24, <2>5
        <3>2. CASE s \in byNet /\ \E p \in PrefixesOf(s, ip) : P(s) = <<1, p>>
            BY <1>7, <2>3, <3>2
        <3>3. CASE /\ s \in byParent /\ EndsWith(name, s.target.name)
                   /\ P(s) = <<2, Len(s.target.name)>>
            <4>1. \/ Len(s.target.name) < Len(r.target.name)
                  \/ s.target.name = r.target.name /\ r.id <= s.id
                BY <2>2, <3>3
            <4>2. Len(s.target.name) \in Nat
                BY <1>19, <3>3
            <4>3. QED
                BY <1>7, <2>3, <2>4, <3>3, <4>1, <4>2
        <3>4. QED
            BY <3>1, <3>2, <3>3
    <2>6. QED
        BY <1>1, <1>5, <1>15, <1>24, <2>1, <2>3, <2>4, <2>5
<1>25. CASE byClient = {} /\ host = Nobody
    <2>1. \A s \in K : P(s) # Nobody =>
             s \in byNet /\ \E p \in PrefixesOf(s, ip) : P(s) = <<1, p>>
        <3>1. name # Nobody => byName = {} /\ \A s \in byParent : ~EndsWith(name, s.target.name)
            <4>1. name # Nobody => byName = {}
                BY <1>16, <1>25
            <4>2. \A s \in byParent : s \in K
                BY <1>4
            <4>3. name # Nobody => ~ \E r : /\ host = CompileScope(Order(c), r)
                                            /\ FirstUnder(c, name, t, white, r)
                BY <1>12, <1>17, <1>25, <4>2
            <4>4. QED
                BY <1>10, <4>1, <4>3
        <3>2. QED
            BY <1>2, <1>25, <3>1
    <2>2. found = net
        BY <1>1, <1>15, <1>25
    <2>3. CASE net = Nobody
        <3>1. \A r \in byNet : PrefixesOf(r, ip) = {}
            <4>1. ~ \E r, p : net = CompileScope(Order(c), r) /\ FirstAt(c, ip, t, white, r, p)
                BY <1>4, <1>12, <1>18, <2>3
            <4>2. QED
                BY <1>11, <4>1
        <3>2. \A s \in K : P(s) = Nobody
            BY <2>1, <3>1
        <3>3. QED
            BY <1>6, <2>2, <2>3, <3>2 DEF Compiled
    <2>4. CASE net # Nobody
        <3>1. PICK r, p : net = CompileScope(Order(c), r) /\ FirstAt(c, ip, t, white, r, p)
            BY <1>11, <2>4
        <3>2. /\ r \in byNet /\ p \in PrefixesOf(r, ip)
              /\ \A s \in byNet : \A q \in PrefixesOf(s, ip) :
                    q < p \/ (q = p /\ r.id <= s.id)
            BY <1>18, <3>1
        <3>3. \A q \in PrefixesOf(r, ip) : q <= p
            BY <1>20, <3>2
        <3>4. r \in K /\ P(r) = <<1, p>> /\ p \in Nat
            BY <1>3, <1>4, <1>20, <3>2, <3>3
        <3>5. P(r) # Nobody
            BY <1>13, <3>4
        <3>6. ASSUME NEW s \in K, P(s) # Nobody
              PROVE  Beats(c, r, s, ip, t)
            <4>1. s \in byNet
                BY <2>1, <3>6
            <4>2. PICK q \in PrefixesOf(s, ip) : P(s) = <<1, q>>
                BY <2>1, <3>6
            <4>3. q < p \/ (q = p /\ r.id <= s.id)
                BY <3>2, <4>1
            <4>4. q \in Nat
                BY <1>20
            <4>5. QED
                BY <1>7, <3>4, <4>2, <4>3, <4>4
        <3>7. QED
            BY <1>5, <2>2, <3>1, <3>4, <3>5, <3>6
    <2>5. QED
        BY <2>3, <2>4
<1>26. QED
    BY <1>10, <1>22, <1>23, <1>24, <1>25

-----------------------------------------------------------------------------
(* The lists that cover a name, found by the bits of a mask.               *)

Names == Seq(Labels) \ {<<>>}

LEMMA SuffixesOfName ==
    ASSUME NEW q \in Names
    PROVE  /\ DOMAIN Suffixes(q) = {k \in DOMAIN q : k = 1 \/ k < Len(q)}
           /\ \A k \in DOMAIN Suffixes(q) :
                 /\ Suffixes(q)[k] = Suffix(q, k) /\ Suffix(q, k) \in Seq(Labels)
                 /\ Suffix(q, k) # Nobody
           /\ DOMAIN Suffixes(q) \in SUBSET Nat
<1>1. q \in Seq(Labels) /\ Len(q) \in Nat \ {0} /\ DOMAIN q = 1..Len(q)
    BY EmptySeq DEF Names
<1>2. DOMAIN Suffixes(q) = 1..(IF Len(q) > 2 THEN Len(q) - 1 ELSE 1)
    BY DEF Suffixes
<1>3. DOMAIN Suffixes(q) = {k \in DOMAIN q : k = 1 \/ k < Len(q)}
    BY <1>1, <1>2
<1>4. \A k \in DOMAIN Suffixes(q) : Suffixes(q)[k] = Suffix(q, k)
    BY DEF Suffixes
<1>5. \A k \in DOMAIN Suffixes(q) : Suffix(q, k) \in Seq(Labels)
    BY <1>1, <1>3, SuffixIsTail
<1>6. Nobody \notin Seq(Labels)
    BY NobodyIsNothing
<1>7. QED
    BY <1>1, <1>3, <1>4, <1>5, <1>6

\* The entry reported is the closest to the name.
LEMMA EntryIsClosest ==
    ASSUME NEW order, NEW b \in DOMAIN order, order[b].enabled, NEW q \in Names,
           Covered(order[b], q)
    PROVE  FirstAnswer(Suffixes(q),
                       LAMBDA d : IF b \in DomainMask(order, d) THEN d ELSE Nobody)
           = Closest(order[b], q)
<1> DEFINE keys == Suffixes(q)
           A(d) == IF b \in DomainMask(order, d) THEN d ELSE Nobody
           hits == {k \in DOMAIN keys : A(keys[k]) # Nobody}
           first == CHOOSE k \in hits : \A j \in hits : k <= j
<1>1. FirstAnswer(keys, A) = IF hits = {} THEN Nobody ELSE A(keys[first])
    BY DEF FirstAnswer
<1>2. \A d : b \in DomainMask(order, d) <=> d \in order[b].domains
    BY DEF DomainMask
<1>3. /\ DOMAIN keys = {k \in DOMAIN q : k = 1 \/ k < Len(q)}
      /\ \A k \in DOMAIN keys : keys[k] = Suffix(q, k) /\ Suffix(q, k) # Nobody
      /\ DOMAIN keys \in SUBSET Nat
    BY SuffixesOfName
<1>4. \A k \in DOMAIN keys : A(keys[k]) # Nobody <=> Suffix(q, k) \in order[b].domains
    BY <1>2, <1>3
<1>5. hits = Covering(order[b], q)
    BY <1>3, <1>4 DEF Covering
<1>6. \A k \in hits : A(keys[k]) = Suffix(q, k)
    BY <1>3, <1>4
<1>7. hits # {} /\ hits \in SUBSET Nat
    BY <1>3, <1>5 DEF Covered
<1> HIDE DEF hits, A, keys
<1>8. first \in hits
    BY <1>7, FirstHit
<1>9. FirstAnswer(keys, A) = Suffix(q, first)
    BY <1>1, <1>6, <1>7, <1>8
<1>10. first = CHOOSE k \in Covering(order[b], q) : \A j \in Covering(order[b], q) : k <= j
    BY <1>5
<1>11. QED
    BY <1>9, <1>10 DEF Closest, A, keys

\* Of the lists whose bits are in both masks and that cover the name, the
\* oldest is found.
LEMMA MatchIsOldest ==
    ASSUME NEW c, Known(c), NEW q \in Names, NEW active, NEW mask,
           NEW chosen \in SUBSET c.lists,
           \A k \in DOMAIN Order(c) :
              Order(c)[k] \in chosen
              <=> /\ Order(c)[k].enabled /\ Covered(Order(c)[k], q)
                  /\ k \in active /\ k \in mask
    PROVE  MatchedList(Compile(c), q, active, mask)
           = IF chosen = {} THEN Nobody
             ELSE [list |-> Oldest(chosen).id, domain |-> Closest(Oldest(chosen), q)]
<1> DEFINE order == Order(c)
           masks == [k \in DOMAIN Suffixes(q) |-> DomainMask(order, Suffixes(q)[k])]
           matches == (UNION {masks[k] : k \in DOMAIN masks}) \cap active \cap mask
           lowest == CHOOSE b \in matches : \A other \in matches : b <= other
<1>1. Compile(c).order = order
    BY SnapshotFields
<1>2. MatchedList(Compile(c), q, active, mask)
      = IF matches = {} THEN Nobody
        ELSE [list |-> order[lowest].id,
              domain |-> FirstAnswer(Suffixes(q),
                            LAMBDA d : IF lowest \in DomainMask(order, d)
                                       THEN d ELSE Nobody)]
    BY <1>1 DEF MatchedList
<1>3. IdsAreKeys(c.lists)
    BY DEF Known, ConfigOK
<1>4. PICK n \in Nat :
         /\ DOMAIN order = 1..n
         /\ \A k \in 1..n : order[k] \in c.lists
         /\ \A l \in c.lists : \E k \in 1..n : order[k] = l
         /\ \A j, k \in 1..n : j < k => order[j].id < order[k].id
    BY <1>3, IdsInOrder DEF Order
<1>5. \A k : k \in matches
             <=> k \in DOMAIN order /\ order[k] \in chosen
    <2>1. \A k, d : k \in DomainMask(order, d)
                    <=> k \in DOMAIN order /\ order[k].enabled /\ d \in order[k].domains
        BY DEF DomainMask
    <2>2. \A j : j \in UNION {masks[k] : k \in DOMAIN masks}
                 <=> \E i \in DOMAIN Suffixes(q) : j \in DomainMask(order, Suffixes(q)[i])
        OBVIOUS
    <2>3. \A l : Covered(l, q)
                 <=> \E i \in DOMAIN Suffixes(q) : Suffixes(q)[i] \in l.domains
        <3>1. \A i \in DOMAIN Suffixes(q) : Suffixes(q)[i] = Suffix(q, i)
            BY SuffixesOfName
        <3>2. DOMAIN Suffixes(q) = {k \in DOMAIN q : k = 1 \/ k < Len(q)}
            BY SuffixesOfName
        <3>3. QED
            BY <3>1, <3>2 DEF Covered, Covering
    <2> HIDE DEF masks, order
    <2>4. \A k : k \in matches <=>
                    /\ k \in active /\ k \in mask
                    /\ \E i \in DOMAIN Suffixes(q) : k \in DomainMask(order, Suffixes(q)[i])
        <3> DEFINE all == UNION {masks[k] : k \in DOMAIN masks}
        <3>1. matches = all \cap active \cap mask
            OBVIOUS
        <3> HIDE DEF all, matches
        <3>2. \A k : k \in matches <=> k \in active /\ k \in mask /\ k \in all
            BY <3>1
        <3>3. QED
            BY <2>2, <3>2 DEF all
    <2>5. \A k \in DOMAIN order : order[k] \in chosen
             <=> /\ order[k].enabled /\ Covered(order[k], q) /\ k \in active /\ k \in mask
        BY DEF order
    <2> HIDE DEF matches
    <2>6. QED
        BY <2>1, <2>3, <2>4, <2>5
<1>6. matches \in SUBSET (1..n)
    BY <1>4, <1>5
<1>7. CASE matches = {}
    <2>1. chosen = {}
        <3> HIDE DEF matches, order
        <3>1. QED
            BY <1>4, <1>5, <1>7
    <2>2. QED
        BY <1>2, <1>7, <2>1
<1>8. CASE matches # {}
    <2> HIDE DEF matches, order
    <2>1. lowest \in matches /\ \A b \in matches : lowest <= b
        <3>1. matches \in SUBSET Nat
            BY <1>6
        <3>2. QED
            BY <1>8, <3>1, FirstHit
    <2> HIDE DEF lowest
    <2>2. lowest \in 1..n /\ lowest \in DOMAIN order /\ order[lowest] \in chosen
        BY <1>5, <1>6, <2>1
    <2>3. \A l \in chosen : order[lowest].id <= l.id
        <3>1. SUFFICES ASSUME NEW l \in chosen
                       PROVE  order[lowest].id <= l.id
            OBVIOUS
        <3>2. PICK k \in 1..n : order[k] = l
            BY <1>4
        <3>3. k \in matches
            BY <1>4, <1>5, <3>2
        <3>4. lowest <= k
            BY <2>1, <3>3
        <3>5. lowest = k \/ lowest < k
            BY <2>2, <3>4
        <3>6. order[lowest].id \in Nat /\ order[k].id \in Nat
            BY <1>3, <1>4, <2>2 DEF IdsAreKeys
        <3>7. QED
            BY <1>4, <2>2, <3>2, <3>5, <3>6
    <2>4. Oldest(chosen) \in chosen /\ \A l \in chosen : Oldest(chosen).id <= l.id
        BY <1>3, <2>2, OldestIsLeast
    <2>5. Oldest(chosen) = order[lowest]
        <3>1. /\ Oldest(chosen).id <= order[lowest].id
              /\ order[lowest].id <= Oldest(chosen).id
            BY <2>2, <2>3, <2>4
        <3>2. Oldest(chosen) \in c.lists /\ order[lowest] \in c.lists
            BY <2>2, <2>4
        <3>3. Oldest(chosen).id \in Nat /\ order[lowest].id \in Nat
            BY <1>3, <3>2 DEF IdsAreKeys
        <3>4. Oldest(chosen).id = order[lowest].id
            BY <3>1, <3>3
        <3>5. QED
            BY <1>3, <3>2, <3>4 DEF IdsAreKeys
    <2>6. order[lowest].enabled /\ Covered(order[lowest], q)
        BY <2>2 DEF order
    <2>7. FirstAnswer(Suffixes(q),
                      LAMBDA d : IF lowest \in DomainMask(order, d) THEN d ELSE Nobody)
          = Closest(order[lowest], q)
        BY <2>2, <2>6, EntryIsClosest
    <2>8. MatchedList(Compile(c), q, active, mask)
          = [list |-> order[lowest].id, domain |-> Closest(order[lowest], q)]
        BY <1>2, <1>8, <2>7
    <2>9. chosen # {}
        BY <2>2
    <2>10. QED
        BY <2>5, <2>8, <2>9
<1>9. QED
    BY <1>7, <1>8

-----------------------------------------------------------------------------
(* The decision.                                                           *)

Winning(c, ip, t) == Winner(c, c.scopes, ip, t)
Exempting(c, ip, t) == Winner(c, {r \in c.scopes : r.whitelisted}, ip, t)

LEMMA ScopesFound ==
    ASSUME NEW c, Known(c), NEW ip \in Ips, NEW t
    PROVE  /\ FirstScope(MatchingScopes(Compile(c), ip, t, TRUE))
              = Compiled(c, Exempting(c, ip, t))
           /\ FirstScope(MatchingScopes(Compile(c), ip, t, FALSE))
              = Compiled(c, Winning(c, ip, t))
           /\ Exempting(c, ip, t) \in c.scopes \cup {Nobody}
           /\ Winning(c, ip, t) \in c.scopes \cup {Nobody}
<1> DEFINE K(white) == {r \in c.scopes : white => r.whitelisted}
<1>1. K(TRUE) = {r \in c.scopes : r.whitelisted} /\ K(FALSE) = c.scopes
    OBVIOUS
<1>2. \A white : /\ FirstScope(MatchingScopes(Compile(c), ip, t, white))
                    = Compiled(c, Winner(c, K(white), ip, t))
                 /\ Winner(c, K(white), ip, t) \in K(white) \cup {Nobody}
    BY ScopeIsWinner
<1>3. K(TRUE) \subseteq c.scopes
    OBVIOUS
<1> HIDE DEF K
<1>4. QED
    BY <1>1, <1>2, <1>3 DEF Exempting, Winning

\* What the documented order says, as a verdict.
Says(block, by, lists, q) ==
    [block |-> block,
     matched_scope |-> IF by = Nobody THEN Nobody ELSE by.id,
     matched_list |-> IF lists = {} THEN Nobody ELSE Oldest(lists).id,
     matched_domain |-> IF lists = {} THEN Nobody ELSE Closest(Oldest(lists), q)]

Deciding(c, w, t, q, type) ==
    {l \in Applicable(c, w, t) : l.type = type /\ Covered(l, q)}

LEMMA DocumentedSays ==
    ASSUME NEW c, NEW ip, NEW q, NEW t
    PROVE  LET exempt == Exempting(c, ip, t)
               w == Winning(c, ip, t)
           IN  Documented(c, ip, q, t) =
                  IF ~c.global_blocking THEN Says(FALSE, Nobody, {}, q)
                  ELSE IF exempt # Nobody THEN Says(FALSE, exempt, {}, q)
                  ELSE IF w # Nobody /\ w.state = "paused" THEN Says(FALSE, w, {}, q)
                  ELSE IF Deciding(c, w, t, q, "whitelist") # {}
                       THEN Says(FALSE, w, Deciding(c, w, t, q, "whitelist"), q)
                  ELSE IF Deciding(c, w, t, q, "block") # {}
                       THEN Says(TRUE, w, Deciding(c, w, t, q, "block"), q)
                  ELSE Says(w = Nobody /\ c.unmatched = "deny", w, {}, q)
    BY Zenon DEF Documented, Says, Deciding, Exempting, Winning

LEMMA CompiledIsTarget ==
    ASSUME NEW c, Known(c), NEW w \in c.scopes \cup {Nobody}
    PROVE  /\ Compiled(c, w) = Nobody <=> w = Nobody
           /\ w # Nobody => /\ w.id \in Nat
                            /\ w.kind \in {"client", "hostname", "network"}
                            /\ Compiled(c, w).id = w.id
                            /\ Compiled(c, w).kind = w.kind
                            /\ Compiled(c, w).state = w.state
                            /\ Compiled(c, w).mask = Bits(Order(c), w.lists)
<1>1. CASE w = Nobody
    BY <1>1 DEF Compiled
<1>2. CASE w # Nobody
    <2>1. w \in c.scopes /\ Compiled(c, w) = CompileScope(Order(c), w)
        BY <1>2 DEF Compiled
    <2>2. Nobody # CompileScope(Order(c), w) /\ w.id \in Nat /\ TargetOK(w)
        BY <2>1 DEF Known, ConfigOK, IdsAreKeys
    <2>3. w.kind \in {"client", "hostname", "network"}
        BY <2>2 DEF TargetOK
    <2>4. QED
        BY <1>2, <2>1, <2>2, <2>3, CompiledFields
<1>3. QED
    BY <1>1, <1>2

LEMMA VerdictOfAnswer ==
    ASSUME NEW c, Known(c), NEW w \in c.scopes \cup {Nobody}, NEW block \in BOOLEAN,
           NEW reason \in Reasons, NEW q
    PROVE  /\ Answer(block, reason, Compiled(c, w), Nobody) # Nobody
           /\ Verdict(Answer(block, reason, Compiled(c, w), Nobody))
              = Says(block, w, {}, q)
<1>1. /\ Compiled(c, w) = Nobody <=> w = Nobody
      /\ w # Nobody => w.id \in Nat /\ Compiled(c, w).id = w.id
    BY CompiledIsTarget
<1>2. Answer(block, reason, Compiled(c, w), Nobody)
      = [block |-> block, reason |-> reason,
         matched_scope |-> IF w = Nobody THEN Nobody ELSE w.id,
         matched_list |-> Nobody, matched_domain |-> Nobody]
    BY <1>1 DEF Answer
<1>3. (IF w = Nobody THEN Nobody ELSE w.id) \in Nat \cup {Nobody}
    BY <1>1
<1>4. Answer(block, reason, Compiled(c, w), Nobody)
      \in [block : BOOLEAN, reason : Reasons, matched_scope : Nat \cup {Nobody},
           matched_list : Nat \cup {Nobody}, matched_domain : Seq(Labels) \cup {Nobody}]
    BY <1>2, <1>3
<1>5. Answer(block, reason, Compiled(c, w), Nobody) # Nobody
    BY <1>4, NobodyIsNothing
<1>6. Says(block, w, {}, q)
      = [block |-> block, matched_scope |-> IF w = Nobody THEN Nobody ELSE w.id,
         matched_list |-> Nobody, matched_domain |-> Nobody]
    BY DEF Says
<1>7. QED
    BY <1>2, <1>5, <1>6 DEF Verdict

\* The bits of the candidate lists on schedule are those of the applicable lists.
LEMMA ActiveIsApplicable ==
    ASSUME NEW c, Known(c), NEW w \in c.scopes \cup {Nobody}, NEW t
    PROVE  LET active == CandidateListMask(Compile(c), Compiled(c, w))
                         \cap ActiveListMask(Compile(c), t)
           IN  /\ active \in SUBSET DOMAIN Order(c)
               /\ \A k \in DOMAIN Order(c) :
                     k \in active <=> Order(c)[k] \in Applicable(c, w, t)
<1> DEFINE candidates == CandidateListMask(Compile(c), Compiled(c, w))
           scheduled == ActiveListMask(Compile(c), t)
<1>1. \A k \in DOMAIN Order(c) : Order(c)[k] \in c.lists
    BY IdsInOrder DEF Order, Known, ConfigOK
<1>2. scheduled = {k \in DOMAIN Order(c) : Order(c)[k].enabled /\ t \in Order(c)[k].hours}
    BY SnapshotFields DEF ActiveListMask
<1>3. /\ Compile(c).global_list_mask =
            {k \in DOMAIN Order(c) : Order(c)[k].enabled /\ Order(c)[k].use_globally}
      /\ Compile(c).reach = c.reach
    BY SnapshotFields
<1>4. /\ Compiled(c, w) = Nobody <=> w = Nobody
      /\ w # Nobody => Compiled(c, w).mask = Bits(Order(c), w.lists)
    BY CompiledIsTarget
<1>5. \A k : k \in Bits(Order(c), w.lists)
             <=> k \in DOMAIN Order(c) /\ Order(c)[k].id \in w.lists
    BY DEF Bits
<1>6. \A k \in DOMAIN Order(c) :
         k \in candidates
         <=> \/ w # Nobody /\ Order(c)[k].id \in w.lists
             \/ /\ c.reach = "all_clients" \/ w # Nobody
                /\ Order(c)[k].enabled /\ Order(c)[k].use_globally
    BY <1>3, <1>4, <1>5 DEF CandidateListMask
<1>7. \A l : l \in Applicable(c, w, t)
             <=> /\ l \in c.lists /\ l.enabled /\ t \in l.hours
                 /\ \/ w # Nobody /\ l.id \in w.lists
                    \/ l.use_globally /\ (w # Nobody \/ c.reach = "all_clients")
    BY DEF Applicable
<1> HIDE DEF candidates
<1>8. \A k \in DOMAIN Order(c) :
         k \in candidates \cap scheduled <=> Order(c)[k] \in Applicable(c, w, t)
    BY <1>1, <1>2, <1>6, <1>7
<1>9. QED
    BY <1>2, <1>8 DEF candidates

\* The bits of the lists of a type.
MaskOf(c, type) ==
    {k \in DOMAIN Order(c) : Order(c)[k].enabled /\ Order(c)[k].type = type}

LEMMA ListsFound ==
    ASSUME NEW c, Known(c), NEW w \in c.scopes \cup {Nobody}, NEW t, NEW q \in Names,
           NEW type
    PROVE  LET active == CandidateListMask(Compile(c), Compiled(c, w))
                         \cap ActiveListMask(Compile(c), t)
               lists == Deciding(c, w, t, q, type)
               found == MatchedList(Compile(c), q, active, MaskOf(c, type))
           IN  /\ found = IF lists = {} THEN Nobody
                          ELSE [list |-> Oldest(lists).id,
                                domain |-> Closest(Oldest(lists), q)]
               /\ found = Nobody <=> lists = {}
               /\ active = {} => lists = {}
<1> DEFINE active == CandidateListMask(Compile(c), Compiled(c, w))
                     \cap ActiveListMask(Compile(c), t)
           lists == Deciding(c, w, t, q, type)
           mask == MaskOf(c, type)
           found == MatchedList(Compile(c), q, active, mask)
<1>1. /\ active \in SUBSET DOMAIN Order(c)
      /\ \A k \in DOMAIN Order(c) : k \in active <=> Order(c)[k] \in Applicable(c, w, t)
    BY ActiveIsApplicable
<1>2. \A l : l \in lists <=> l \in Applicable(c, w, t) /\ l.type = type /\ Covered(l, q)
    BY DEF Deciding
<1>3. \A l \in Applicable(c, w, t) : l \in c.lists /\ l.enabled
    BY DEF Applicable
<1> HIDE DEF active, lists
<1>4. \A k \in DOMAIN Order(c) :
         Order(c)[k] \in lists
         <=> /\ Order(c)[k].enabled /\ Covered(Order(c)[k], q)
             /\ k \in active /\ k \in mask
    BY <1>1, <1>2, <1>3 DEF MaskOf
<1>5. lists \in SUBSET c.lists
    BY <1>2, <1>3
<1> HIDE DEF mask
<1>6. found = IF lists = {} THEN Nobody
              ELSE [list |-> Oldest(lists).id, domain |-> Closest(Oldest(lists), q)]
    BY <1>4, <1>5, MatchIsOldest
<1>7. lists # {} => found # Nobody
    <2>1. ASSUME lists # {}
          PROVE  [list |-> Oldest(lists).id, domain |-> Closest(Oldest(lists), q)] # Nobody
        <3>1. IdsAreKeys(c.lists)
            BY DEF Known, ConfigOK
        <3>2. Oldest(lists) \in lists
            BY <1>5, <2>1, <3>1, OldestIsLeast
        <3>3. Oldest(lists).id \in Nat
            BY <1>5, <3>1, <3>2 DEF IdsAreKeys
        <3>4. Closest(Oldest(lists), q) \in Seq(Labels)
            <4> DEFINE covering == Covering(Oldest(lists), q)
            <4>1. covering # {} /\ covering \in SUBSET DOMAIN Suffixes(q)
                BY <1>2, <3>2, SuffixesOfName DEF Covered, Covering
            <4>2. covering \in SUBSET Nat
                BY <4>1, SuffixesOfName
            <4> HIDE DEF covering
            <4>3. (CHOOSE k \in covering : \A j \in covering : k <= j) \in covering
                BY <4>1, <4>2, FirstHit
            <4>4. \A k \in covering : Suffix(q, k) \in Seq(Labels)
                BY <4>1, SuffixesOfName
            <4>5. QED
                BY <4>3, <4>4 DEF Closest, covering
        <3>5. [list |-> Oldest(lists).id, domain |-> Closest(Oldest(lists), q)]
              \in [list : Nat, domain : Seq(Labels)]
            BY <3>3, <3>4
        <3>6. QED
            BY <3>5, NobodyIsNothing
    <2>2. QED
        BY <1>6, <2>1
<1>8. active = {} => lists = {}
    <2>1. \A l \in c.lists : \E k \in DOMAIN Order(c) : Order(c)[k] = l
        <3>1. IdsAreKeys(c.lists)
            BY DEF Known, ConfigOK
        <3>2. DOMAIN Order(c) = 1..Cardinality(c.lists)
            BY <3>1, IdsInOrder DEF Order
        <3>3. QED
            BY <3>1, <3>2, IdsInOrder DEF Order
    <2>2. QED
        BY <1>4, <1>5, <2>1
<1> HIDE DEF found
<1>9. found = Nobody <=> lists = {}
    BY <1>6, <1>7
<1>10. QED
    BY <1>6, <1>8, <1>9 DEF found, active, lists, mask

LEMMA ListedAnswer ==
    ASSUME NEW c, Known(c), NEW w \in c.scopes \cup {Nobody}, NEW block, NEW reason,
           NEW q, NEW lists, lists # {}, NEW match, match # Nobody,
           match = [list |-> Oldest(lists).id, domain |-> Closest(Oldest(lists), q)]
    PROVE  Verdict(Answer(block, reason, Compiled(c, w), match)) = Says(block, w, lists, q)
<1>1. /\ Compiled(c, w) = Nobody <=> w = Nobody
      /\ w # Nobody => Compiled(c, w).id = w.id
    BY CompiledIsTarget
<1>2. match.list = Oldest(lists).id /\ match.domain = Closest(Oldest(lists), q)
    OBVIOUS
<1>3. Answer(block, reason, Compiled(c, w), match)
      = [block |-> block, reason |-> reason,
         matched_scope |-> IF w = Nobody THEN Nobody ELSE w.id,
         matched_list |-> Oldest(lists).id, matched_domain |-> Closest(Oldest(lists), q)]
    BY <1>1, <1>2 DEF Answer
<1>4. QED
    BY <1>3 DEF Says, Verdict

LEMMA UnlistedAnswer ==
    ASSUME NEW c, Known(c), NEW w \in c.scopes \cup {Nobody}, NEW reason \in Reasons, NEW q
    PROVE  Verdict(Unlisted(Compile(c), Compiled(c, w), reason))
           = Says(w = Nobody /\ c.unmatched = "deny", w, {}, q)
<1>1. Compiled(c, w) = Nobody <=> w = Nobody
    BY CompiledIsTarget
<1>2. Compile(c).unmatched = c.unmatched
    BY SnapshotFields
<1>3. CASE w = Nobody /\ c.unmatched = "deny"
    <2>1. Unlisted(Compile(c), Compiled(c, w), reason)
          = Answer(TRUE, "no_scope_default_deny", Compiled(c, w), Nobody)
        BY <1>1, <1>2, <1>3 DEF Unlisted
    <2>2. Verdict(Unlisted(Compile(c), Compiled(c, w), reason)) = Says(TRUE, w, {}, q)
        <3>1. \A b \in BOOLEAN, r \in Reasons :
                 Verdict(Answer(b, r, Compiled(c, w), Nobody)) = Says(b, w, {}, q)
            BY VerdictOfAnswer
        <3>2. "no_scope_default_deny" \in Reasons
            BY DEF Reasons
        <3>3. QED
            BY <2>1, <3>1, <3>2
    <2>3. (w = Nobody /\ c.unmatched = "deny") = TRUE
        BY <1>3
    <2>4. QED
        BY <2>2, <2>3
<1>4. CASE ~(w = Nobody /\ c.unmatched = "deny")
    <2>1. Unlisted(Compile(c), Compiled(c, w), reason)
          = Answer(FALSE, reason, Compiled(c, w), Nobody)
        BY <1>1, <1>2, <1>4 DEF Unlisted
    <2>2. Verdict(Unlisted(Compile(c), Compiled(c, w), reason)) = Says(FALSE, w, {}, q)
        BY <2>1, VerdictOfAnswer
    <2>3. (w = Nobody /\ c.unmatched = "deny") = FALSE
        BY <1>4
    <2>4. QED
        BY <2>2, <2>3
<1>5. QED
    BY <1>3, <1>4

\* The whole of decide() against the whole of the guide, for any configuration,
\* client, name and instant.
LEMMA DecidesAsDocumented ==
    ASSUME NEW c, Known(c), NEW ip \in Ips, NEW q \in Names, NEW t
    PROVE  Verdict(Decide(Compile(c), ip, q, t)) = Documented(c, ip, q, t)
<1> DEFINE s == Compile(c)
           exempt == Exempting(c, ip, t)
           w == Winning(c, ip, t)
           early == BeforeLists(s, ip, t)
           active == CandidateListMask(s, Compiled(c, w)) \cap ActiveListMask(s, t)
           white == Deciding(c, w, t, q, "whitelist")
           block == Deciding(c, w, t, q, "block")
           allowed == MatchedList(s, q, active, s.whitelist_mask)
           blocked == MatchedList(s, q, active, s.block_mask)
           answered == Decide(s, ip, q, t)
<1>1. /\ FirstScope(MatchingScopes(s, ip, t, TRUE)) = Compiled(c, exempt)
      /\ FirstScope(MatchingScopes(s, ip, t, FALSE)) = Compiled(c, w)
      /\ exempt \in c.scopes \cup {Nobody} /\ w \in c.scopes \cup {Nobody}
    BY ScopesFound
<1>2. s.global_blocking = c.global_blocking
    BY SnapshotFields
<1>3. early = IF ~c.global_blocking THEN Answer(FALSE, "global_paused", Nobody, Nobody)
              ELSE IF Compiled(c, exempt) # Nobody
                   THEN Answer(FALSE, WhitelistReason(Compiled(c, exempt).kind),
                               Compiled(c, exempt), Nobody)
              ELSE IF Compiled(c, w) # Nobody /\ Compiled(c, w).state = "paused"
                   THEN Answer(FALSE, PausedReason(Compiled(c, w).kind),
                               Compiled(c, w), Nobody)
              ELSE Nobody
    BY <1>1, <1>2 DEF BeforeLists
<1>4. answered = IF early # Nobody THEN early
                 ELSE ListDecision(s, Compiled(c, w), q, ActiveListMask(s, t))
    BY <1>1 DEF Decide, DecideWith
<1>5. /\ Compiled(c, exempt) = Nobody <=> exempt = Nobody
      /\ exempt # Nobody => Compiled(c, exempt).kind \in {"client", "hostname", "network"}
      /\ Compiled(c, w) = Nobody <=> w = Nobody
      /\ w # Nobody => /\ Compiled(c, w).kind \in {"client", "hostname", "network"}
                       /\ Compiled(c, w).state = w.state
    <2>1. \A x \in c.scopes \cup {Nobody} :
             /\ Compiled(c, x) = Nobody <=> x = Nobody
             /\ x # Nobody => /\ Compiled(c, x).kind \in {"client", "hostname", "network"}
                              /\ Compiled(c, x).state = x.state
        BY CompiledIsTarget
    <2> HIDE DEF exempt, w
    <2>2. QED
        BY <1>1, <2>1
<1>6. Documented(c, ip, q, t) =
          IF ~c.global_blocking THEN Says(FALSE, Nobody, {}, q)
          ELSE IF exempt # Nobody THEN Says(FALSE, exempt, {}, q)
          ELSE IF w # Nobody /\ w.state = "paused" THEN Says(FALSE, w, {}, q)
          ELSE IF white # {} THEN Says(FALSE, w, white, q)
          ELSE IF block # {} THEN Says(TRUE, w, block, q)
          ELSE Says(w = Nobody /\ c.unmatched = "deny", w, {}, q)
    BY DocumentedSays
<1>7. \A kind \in {"client", "hostname", "network"} :
         WhitelistReason(kind) \in Reasons /\ PausedReason(kind) \in Reasons
    <2>1. \A kind : WhitelistReason(kind) \in Reasons
        BY DEF WhitelistReason, Reasons
    <2>2. PausedReason("client") \in Reasons
        BY DEF PausedReason, Reasons
    <2>3. PausedReason("hostname") \in Reasons
        BY DEF PausedReason, Reasons
    <2>4. PausedReason("network") \in Reasons
        BY DEF PausedReason, Reasons
    <2>5. QED
        BY <2>1, <2>2, <2>3, <2>4
<1>8. s.whitelist_mask = MaskOf(c, "whitelist") /\ s.block_mask = MaskOf(c, "block")
    BY SnapshotFields DEF MaskOf
<1>9. ListDecision(s, Compiled(c, w), q, ActiveListMask(s, t))
      = IF active = {} THEN Unlisted(s, Compiled(c, w), "no_active_lists")
        ELSE IF allowed # Nobody
             THEN Answer(FALSE, "whitelist_match", Compiled(c, w), allowed)
        ELSE IF blocked # Nobody
             THEN Answer(TRUE, "blocklist_match", Compiled(c, w), blocked)
        ELSE Unlisted(s, Compiled(c, w), "not_listed")
    BY DEF ListDecision
<1> HIDE DEF exempt, w, early, answered
<1>10. /\ allowed = IF white = {} THEN Nobody
                    ELSE [list |-> Oldest(white).id, domain |-> Closest(Oldest(white), q)]
       /\ allowed = Nobody <=> white = {}
       /\ active = {} => white = {}
    BY <1>1, <1>8, ListsFound, SMTT(30)
<1>11. /\ blocked = IF block = {} THEN Nobody
                    ELSE [list |-> Oldest(block).id, domain |-> Closest(Oldest(block), q)]
       /\ blocked = Nobody <=> block = {}
       /\ active = {} => block = {}
    BY <1>1, <1>8, ListsFound, SMTT(30)
<1> SUFFICES Verdict(answered) = Documented(c, ip, q, t)
    BY DEF answered
<1> HIDE DEF active, white, block, allowed, blocked, s
<1>12. CASE ~c.global_blocking
    <2>1. Compiled(c, Nobody) = Nobody
        BY DEF Compiled
    <2>2. early = Answer(FALSE, "global_paused", Compiled(c, Nobody), Nobody)
        BY <1>3, <1>12, <2>1
    <2>3. early # Nobody /\ Verdict(early) = Says(FALSE, Nobody, {}, q)
        <3>1. \A r \in Reasons :
                 /\ Answer(FALSE, r, Compiled(c, Nobody), Nobody) # Nobody
                 /\ Verdict(Answer(FALSE, r, Compiled(c, Nobody), Nobody))
                    = Says(FALSE, Nobody, {}, q)
            BY VerdictOfAnswer
        <3>2. "global_paused" \in Reasons
            BY DEF Reasons
        <3>3. QED
            BY <2>2, <3>1, <3>2
    <2>4. QED
        BY <1>4, <1>6, <1>12, <2>3
<1>13. CASE c.global_blocking /\ exempt # Nobody
    <2>1. early = Answer(FALSE, WhitelistReason(Compiled(c, exempt).kind),
                         Compiled(c, exempt), Nobody)
        BY <1>3, <1>5, <1>13
    <2>2. WhitelistReason(Compiled(c, exempt).kind) \in Reasons
        BY <1>5, <1>7, <1>13
    <2>3. early # Nobody /\ Verdict(early) = Says(FALSE, exempt, {}, q)
        BY <1>1, <2>1, <2>2, VerdictOfAnswer
    <2>4. QED
        BY <1>4, <1>6, <1>13, <2>3
<1>14. CASE c.global_blocking /\ exempt = Nobody /\ w # Nobody /\ w.state = "paused"
    <2>1. early = Answer(FALSE, PausedReason(Compiled(c, w).kind), Compiled(c, w), Nobody)
        BY <1>3, <1>5, <1>14
    <2>2. PausedReason(Compiled(c, w).kind) \in Reasons
        BY <1>5, <1>7, <1>14
    <2>3. early # Nobody /\ Verdict(early) = Says(FALSE, w, {}, q)
        BY <1>1, <2>1, <2>2, VerdictOfAnswer
    <2>4. QED
        BY <1>4, <1>6, <1>14, <2>3
<1>15. CASE c.global_blocking /\ exempt = Nobody /\ ~(w # Nobody /\ w.state = "paused")
    <2>1. early = Nobody
        BY <1>3, <1>5, <1>15
    <2>2. answered = IF active = {} THEN Unlisted(s, Compiled(c, w), "no_active_lists")
                     ELSE IF allowed # Nobody
                          THEN Answer(FALSE, "whitelist_match", Compiled(c, w), allowed)
                     ELSE IF blocked # Nobody
                          THEN Answer(TRUE, "blocklist_match", Compiled(c, w), blocked)
                     ELSE Unlisted(s, Compiled(c, w), "not_listed")
        BY <1>4, <1>9, <2>1
    <2>3. \A reason \in Reasons :
             Verdict(Unlisted(s, Compiled(c, w), reason))
             = Says(w = Nobody /\ c.unmatched = "deny", w, {}, q)
        BY <1>1, UnlistedAnswer DEF s
    <2>4. CASE white # {}
        <3>1. answered = Answer(FALSE, "whitelist_match", Compiled(c, w), allowed)
            BY <1>10, <2>2, <2>4
        <3>2. allowed # Nobody
              /\ allowed = [list |-> Oldest(white).id, domain |-> Closest(Oldest(white), q)]
            BY <1>10, <2>4
        <3>3. \A r : \A b \in BOOLEAN : Verdict(Answer(b, r, Compiled(c, w), allowed))
              = Says(b, w, white, q)
            BY <1>1, <2>4, <3>2, ListedAnswer
        <3>4. QED
            BY <1>6, <1>15, <2>4, <3>1, <3>3
    <2>5. CASE white = {} /\ block # {}
        <3>1. answered = Answer(TRUE, "blocklist_match", Compiled(c, w), blocked)
            BY <1>10, <1>11, <2>2, <2>5
        <3>2. blocked # Nobody
              /\ blocked = [list |-> Oldest(block).id, domain |-> Closest(Oldest(block), q)]
            BY <1>11, <2>5
        <3>3. \A r : \A b \in BOOLEAN : Verdict(Answer(b, r, Compiled(c, w), blocked))
              = Says(b, w, block, q)
            BY <1>1, <2>5, <3>2, ListedAnswer
        <3>4. QED
            BY <1>6, <1>15, <2>5, <3>1, <3>3
    <2>6. CASE white = {} /\ block = {}
        <3>1. \E reason \in {"no_active_lists", "not_listed"} :
                 answered = Unlisted(s, Compiled(c, w), reason)
            BY <1>10, <1>11, <2>2, <2>6
        <3>2. Verdict(answered) = Says(w = Nobody /\ c.unmatched = "deny", w, {}, q)
            <4>1. {"no_active_lists", "not_listed"} \subseteq Reasons
                BY DEF Reasons
            <4>2. QED
                BY <2>3, <3>1, <4>1
        <3>3. QED
            BY <1>6, <1>15, <2>6, <3>2
    <2>7. QED
        BY <2>4, <2>5, <2>6
<1>16. QED
    BY <1>12, <1>13, <1>14, <1>15

-----------------------------------------------------------------------------
(* Questions to any configuration (MCPolicyDecision).                      *)

AskedOfCases == \E x \in Cases : config \in x.configs /\ asked = x.asked

QuestionsInductive ==
    /\ part = "decision" => AskedOfCases
    /\ part # "decision" => answer = Nobody
    /\ AnsweredAsDocumented

LEMMA CasesAreKnown ==
    ASSUME AskedOfCases
    PROVE  Known(config) /\ asked \subseteq Names
<1>1. PICK x \in Cases : config \in x.configs /\ asked = x.asked
    BY DEF AskedOfCases
<1>2. ConfigOK(config) /\ asked \subseteq Names
    BY <1>1, CasesOK DEF Names
<1>3. \A r \in config.scopes :
         Nobody # r /\ Nobody # CompileScope(ById(config.lists), r)
    BY <1>1, NobodyIsNothing
<1>4. QED
    BY <1>2, <1>3 DEF Known, Order

LEMMA QuestionsInitInductive == PolicyInit => QuestionsInductive
    BY DEF PolicyInit, Init, QuestionsInductive, AskedOfCases, AnsweredAsDocumented

LEMMA QuestionsNextInductive ==
    QuestionsInductive /\ [PolicyNext]_<<part, decisionVars, requestVars, scheduleVars>>
        => QuestionsInductive'
<1> SUFFICES ASSUME QuestionsInductive,
                    [PolicyNext]_<<part, decisionVars, requestVars, scheduleVars>>
             PROVE  QuestionsInductive'
    OBVIOUS
<1>1. part' = part
    BY DEF PolicyNext
<1>2. CASE part = "decision" /\ Next
    <2>1. AskedOfCases /\ UNCHANGED <<config, asked>>
        BY <1>2 DEF QuestionsInductive, Next, Ask
    <2>2. AskedOfCases'
        BY <2>1 DEF AskedOfCases
    <2>3. CASE Ask
        <3>1. PICK ip \in Ips, q \in asked, t \in Instants :
                  /\ question' = [ip |-> ip, qname |-> q, now |-> t]
                  /\ answer' = Decide(Compile(config), ip, q, t)
            BY <2>3 DEF Ask
        <3>2. Known(config) /\ q \in Names
            BY <2>1, CasesAreKnown
        <3>3. Verdict(answer') = Documented(config, ip, q, t)
            BY <3>1, <3>2, DecidesAsDocumented
        <3>4. question'.ip = ip /\ question'.qname = q /\ question'.now = t
            BY <3>1
        <3>5. AnsweredAsDocumented'
            BY <2>1, <3>3, <3>4 DEF AnsweredAsDocumented
        <3>6. QED
            BY <1>1, <1>2, <2>2, <3>5 DEF QuestionsInductive
    <2>4. CASE answer' = Nobody
        BY <1>1, <1>2, <2>2, <2>4 DEF QuestionsInductive, AnsweredAsDocumented
    <2>5. QED
        BY <1>2, <2>3, <2>4 DEF Next
<1>3. CASE UNCHANGED decisionVars
    BY <1>1, <1>3
       DEF QuestionsInductive, AskedOfCases, AnsweredAsDocumented, decisionVars
<1>4. QED
    BY <1>2, <1>3 DEF PolicyNext

\* Any question to any configuration whose ids are keys, whose names are not
\* empty and whose networks are masked, at any widths of the addresses, is
\* answered as the guide says: the indexes, masks, bit numbers and search orders
\* of the snapshot decide what the order of precedence decides on the rows
\* (app/policy.py, _reload_full and decide).
THEOREM AnswersStayDocumented == PolicySpec => []AnsweredAsDocumented
<1>1. QuestionsInductive => AnsweredAsDocumented
    BY DEF QuestionsInductive
<1>2. QED
    BY <1>1, QuestionsInitInductive, QuestionsNextInductive, PTL DEF PolicySpec

-----------------------------------------------------------------------------
(* The invariant of the requests (PolicyRequest).                          *)

Verdicts ==
    UNION {{Request!Decide(Request!Compile(c), r.ip, r.questions[k].name, time) :
               c \in Policies, time \in 0..MaxMinute, k \in DOMAIN r.questions} :
           r \in Requests}

RequestsTyped ==
    /\ published \in Seq(Policies) /\ Request!Current > 0
    /\ minute \in 0..MaxMinute
    /\ cache.serial \in 0..Request!Current
    /\ pc \in [Workers -> {"idle", "filter", "decide", "captured", "computing",
                           "answered", "done"}]
    /\ request \in [Workers -> Requests \cup {Nobody}]
    /\ since \in [Workers -> Nat] /\ filtered \in [Workers -> Nat]
    /\ evaluated \in [Workers -> Seq(Nat)]
    /\ now \in [Workers -> 0..MaxMinute] /\ held \in [Workers -> Nat]
    /\ answers \in [Workers -> Seq([serial : Nat, decision : Verdicts])]
    /\ row \in [Workers -> {Nobody} \cup [question : Nat, decision : Verdicts]]

\* Whoever stored the mask, it is that of its snapshot at its minute.
CacheIsOfItsSnapshot ==
    cache.serial # 0 =>
        cache.mask = Request!ActiveListMask(Request!Snap(cache.serial), cache.minute)

Asks(w) == Len(Request!Questions(w))

\* A request that is not answered yet.
Open(w) ==
    /\ row[w] = Nobody
    /\ \A n \in 1..Len(answers[w]) : ~answers[w][n].decision.block

\* Either the last answer blocks, or every question has its answer.
Complete(w) ==
    /\ Len(answers[w]) > 0 /\ filtered[w] = Asks(w)
    /\ \/ answers[w][Len(answers[w])].decision.block
       \/ Len(answers[w]) = Len(evaluated[w])

PlaceIsSound(w) ==
    /\ pc[w] = "idle" => Open(w) /\ answers[w] = <<>> /\ filtered[w] = 0
                         /\ evaluated[w] = <<>>
    /\ pc[w] # "idle" => request[w] \in Requests /\ since[w] \in 1..Request!Current
                         /\ filtered[w] <= Asks(w)
    /\ pc[w] = "filter" => Open(w) /\ answers[w] = <<>>
    /\ pc[w] \in {"decide", "captured", "computing"} =>
          Open(w) /\ filtered[w] = Asks(w) /\ Len(answers[w]) < Len(evaluated[w])
    /\ pc[w] \in {"captured", "computing"} => held[w] \in Request!InForce(w)
    /\ pc[w] = "answered" => Complete(w) /\ row[w] = Nobody
    /\ pc[w] = "done" =>
          \/ /\ row[w] = Nobody /\ answers[w] = <<>> /\ evaluated[w] = <<>>
             /\ filtered[w] = Asks(w)
          \/ /\ Complete(w)
             /\ row[w] = [question |-> evaluated[w][Request!Reported(w)],
                          decision |-> answers[w][Request!Reported(w)].decision]

\* The filter has let a question through, or found it ignored.
FilterIsSound(w) ==
    /\ \A n \in 1..Len(evaluated[w]) : evaluated[w][n] \in 1..filtered[w]
    /\ \A k \in 1..filtered[w] :
          \/ \E serial \in Request!InForce(w) :
                Request!Questions(w)[k].type \in published[serial].ignored
          \/ \E n \in 1..Len(evaluated[w]) : evaluated[w][n] = k

\* Answers are exact, in the order of the questions, and only the last may block.
AnswersAreSound(w) ==
    /\ Len(answers[w]) <= Len(evaluated[w])
    /\ \A n \in 1..Len(answers[w]) :
          /\ answers[w][n].serial \in Request!InForce(w)
          /\ answers[w][n].decision =
                Request!Exact(w, evaluated[w][n], answers[w][n].serial)
    /\ \A n \in 1..(Len(answers[w]) - 1) : ~answers[w][n].decision.block

WorkerIsSound(w) == PlaceIsSound(w) /\ FilterIsSound(w) /\ AnswersAreSound(w)

RequestsInductive ==
    /\ RequestsTyped /\ CacheIsOfItsSnapshot
    /\ \A w \in Workers : WorkerIsSound(w)

LEMMA QuestionsAreNumbered ==
    ASSUME NEW r \in Requests
    PROVE  Len(r.questions) \in Nat /\ DOMAIN r.questions = 1..Len(r.questions)
<1>1. r.questions \in Seq({r.questions[k] : k \in DOMAIN r.questions})
  BY RequestConstants
<1> HIDE DEF Seq
<1> QED BY <1>1, LenProperties

\* The answers that are possible, which are nobody.
LEMMA ExactIsVerdict ==
    ASSUME RequestsTyped, NEW w \in Workers, request[w] \in Requests,
           NEW k \in 1..Asks(w), NEW serial \in 1..Request!Current
    PROVE  /\ Request!Exact(w, k, serial) \in Verdicts
           /\ [question |-> k, decision |-> Request!Exact(w, k, serial)] # Nobody
<1> DEFINE r == request[w]
           c == published[serial]
           verdict(q, time) ==
              Request!Decide(Request!Compile(c), r.ip, r.questions[q].name, time)
<1>1. /\ r \in Requests /\ k \in DOMAIN r.questions /\ now[w] \in 0..MaxMinute
  BY QuestionsAreNumbered DEF RequestsTyped, Asks, Request!Questions
<1>2. c \in Policies
  BY DEF RequestsTyped, Request!Current
<1>3. Request!Exact(w, k, serial) = verdict(k, now[w])
  BY DEF Request!Exact, Request!Snap, Request!Questions
<1>4. verdict(k, now[w]) \in Verdicts
  BY <1>1, <1>2 DEF Verdicts
<1>5. [question |-> k, decision |-> verdict(k, now[w])] # Nobody
  BY <1>1, <1>2, NobodyIsNoRow
<1> QED BY <1>3, <1>4, <1>5

Unmoved(v) ==
    /\ pc'[v] = pc[v] /\ request'[v] = request[v] /\ since'[v] = since[v]
    /\ filtered'[v] = filtered[v] /\ evaluated'[v] = evaluated[v] /\ now'[v] = now[v]
    /\ held'[v] = held[v] /\ answers'[v] = answers[v] /\ row'[v] = row[v]

\* Snapshots stay what they are, and newer ones come behind them.
Grows ==
    /\ Request!Current \in Nat /\ Request!Current' \in Nat
    /\ Request!Current <= Request!Current'
    /\ \A serial \in 1..Request!Current : published'[serial] = published[serial]

\* What is known of a thread stays known while the others and the clock go on.
LEMMA WorkerStays ==
    ASSUME RequestsTyped, Grows, NEW v \in Workers, WorkerIsSound(v), Unmoved(v)
    PROVE  WorkerIsSound(v)'
<1>0. CASE pc[v] = "idle"
  <2>1. /\ answers[v] = <<>> /\ evaluated[v] = <<>> /\ filtered[v] = 0
        /\ Len(answers[v]) = 0 /\ Len(evaluated[v]) = 0
    BY <1>0 DEF WorkerIsSound, PlaceIsSound
  <2>2. PlaceIsSound(v)'
    BY <1>0, <2>1 DEF WorkerIsSound, PlaceIsSound, Unmoved, Open
  <2>3. FilterIsSound(v)'
    BY <2>1 DEF FilterIsSound, Unmoved
  <2>4. AnswersAreSound(v)'
    BY <2>1 DEF AnswersAreSound, Unmoved
  <2> QED BY <2>2, <2>3, <2>4 DEF WorkerIsSound
<1>1. CASE pc[v] # "idle"
  <2>1. /\ request[v] \in Requests /\ since[v] \in 1..Request!Current
        /\ filtered[v] <= Asks(v) /\ filtered[v] \in Nat
        /\ Request!InForce(v) \subseteq 1..Request!Current
        /\ Request!InForce(v) \subseteq Request!InForce(v)'
        /\ Request!Questions(v)' = Request!Questions(v) /\ Asks(v)' = Asks(v)
    <3>1. /\ request[v] \in Requests /\ since[v] \in 1..Request!Current
          /\ filtered[v] <= Asks(v) /\ filtered[v] \in Nat
      BY <1>1 DEF WorkerIsSound, PlaceIsSound, RequestsTyped
    <3>2. /\ Request!InForce(v) \subseteq 1..Request!Current
          /\ Request!InForce(v) \subseteq Request!InForce(v)'
      BY <3>1 DEF Unmoved, Grows, Request!InForce
    <3> QED BY <3>1, <3>2 DEF Unmoved, Request!Questions, Asks
  <2>2. \A serial \in Request!InForce(v) : published'[serial] = published[serial]
    BY <2>1 DEF Grows
  <2>3. \A k, serial : serial \in Request!InForce(v) =>
            Request!Exact(v, k, serial)' = Request!Exact(v, k, serial)
    BY <2>1, <2>2 DEF Request!Exact, Request!Snap, Unmoved
  <2>4. PlaceIsSound(v)'
    <3>1. Request!Reported(v)' = Request!Reported(v)
      BY DEF Request!Reported, Unmoved
    <3>2. (Open(v) => Open(v)') /\ (Complete(v) => Complete(v)')
      BY <2>1 DEF Open, Complete, Unmoved
    <3>3. pc'[v] # "idle" => request'[v] \in Requests /\ since'[v] \in 1..Request!Current'
                         /\ filtered'[v] <= Asks(v)'
      BY <2>1 DEF Unmoved, Grows
    <3>4. PlaceIsSound(v)
      BY DEF WorkerIsSound
    <3> QED BY <1>1, <2>1, <3>1, <3>2, <3>3, <3>4 DEF PlaceIsSound, Unmoved
  <2>5. FilterIsSound(v)'
    <3>1. FilterIsSound(v)
      BY DEF WorkerIsSound
    <3>2. ASSUME NEW k \in 1..filtered[v]
          PROVE  \/ \E serial \in Request!InForce(v)' :
                      Request!Questions(v)'[k].type \in published'[serial].ignored
                 \/ \E n \in 1..Len(evaluated'[v]) : evaluated'[v][n] = k
      BY <2>1, <2>2, <3>1, <3>2 DEF FilterIsSound, Unmoved
    <3> QED BY <3>1, <3>2 DEF FilterIsSound, Unmoved
  <2>6. AnswersAreSound(v)'
    BY <2>1, <2>3 DEF WorkerIsSound, AnswersAreSound, Unmoved
  <2> QED BY <2>4, <2>5, <2>6 DEF WorkerIsSound
<1> QED BY <1>0, <1>1

\* A thread's step keeps the invariant if it keeps its own part.
LEMMA WorkerMoves ==
    ASSUME RequestsInductive, NEW w \in Workers,
           \A v \in Workers \ {w} : Unmoved(v), UNCHANGED published,
           RequestsTyped', CacheIsOfItsSnapshot', WorkerIsSound(w)'
    PROVE  RequestsInductive'
<1>1. Grows
  BY DEF Grows, RequestsInductive, RequestsTyped, Request!Current
<1>2. ASSUME NEW v \in Workers \ {w} PROVE WorkerIsSound(v)'
  BY <1>1, <1>2, WorkerStays DEF RequestsInductive
<1> QED BY <1>2 DEF RequestsInductive

LEMMA CacheStays ==
    ASSUME RequestsInductive, UNCHANGED <<published, cache>>
    PROVE  CacheIsOfItsSnapshot'
BY DEF RequestsInductive, CacheIsOfItsSnapshot, Request!Snap

LEMMA ArriveIsSound ==
    ASSUME RequestsInductive, NEW w \in Workers, Request!Arrive(w)
    PROVE  RequestsInductive'
<1> USE DEF Request!Arrive, Request!shared
<1>1. RequestsTyped' /\ CacheIsOfItsSnapshot'
  <2>1. CacheIsOfItsSnapshot'
    BY CacheStays
  <2>2. /\ pc' \in [Workers -> {"idle", "filter", "decide", "captured", "computing",
                               "answered", "done"}]
        /\ request' \in [Workers -> Requests \cup {Nobody}]
        /\ since' \in [Workers -> Nat]
    BY DEF RequestsInductive, RequestsTyped, Request!Current
  <2>3. RequestsTyped
    BY DEF RequestsInductive
  <2>4. RequestsTyped'
    BY <2>2, <2>3 DEF RequestsTyped, Request!Current
  <2> QED BY <2>1, <2>4
<1>2. \A v \in Workers \ {w} : Unmoved(v)
  BY DEF Unmoved, RequestsInductive, RequestsTyped
<1>3. /\ row[w] = Nobody /\ answers[w] = <<>> /\ filtered[w] = 0 /\ evaluated[w] = <<>>
      /\ Request!Current \in Nat /\ Request!Current > 0
      /\ pc'[w] = "filter" /\ since'[w] = Request!Current /\ request'[w] \in Requests
  BY DEF RequestsInductive, WorkerIsSound, PlaceIsSound, Open, RequestsTyped,
     Request!Current
<1>4. Asks(w)' \in Nat
  BY <1>3, QuestionsAreNumbered DEF Asks, Request!Questions
<1>5. WorkerIsSound(w)'
  <2>1. PlaceIsSound(w)'
    BY <1>3, <1>4 DEF PlaceIsSound, Open, Request!Current
  <2>2. FilterIsSound(w)' /\ AnswersAreSound(w)'
    BY <1>3 DEF FilterIsSound, AnswersAreSound
  <2> QED BY <2>1, <2>2 DEF WorkerIsSound
<1> QED BY <1>1, <1>2, <1>5, WorkerMoves

LEMMA FilterIsDone ==
    ASSUME RequestsInductive, NEW w \in Workers, Request!Filter(w)
    PROVE  RequestsInductive'
<1> DEFINE k == filtered[w] + 1
           ignored == Request!Questions(w)[k].type \in published[Request!Current].ignored
<1>0. /\ pc[w] = "filter" /\ k <= Asks(w) /\ filtered' = [filtered EXCEPT ![w] = k]
      /\ evaluated' = [evaluated EXCEPT ![w] = IF ignored THEN @ ELSE Append(@, k)]
      /\ UNCHANGED <<published, resetDue, minute, cache, pc, request, since, now, held,
                     answers, row>>
  BY DEF Request!Filter, Request!shared, Asks
<1>1. /\ request[w] \in Requests /\ since[w] \in 1..Request!Current /\ Open(w)
      /\ answers[w] = <<>> /\ filtered[w] \in Nat /\ k \in 1..Asks(w) /\ Asks(w) \in Nat
      /\ evaluated[w] \in Seq(Nat) /\ Len(evaluated[w]) \in Nat
      /\ Request!Current \in Nat
  <2>1. /\ request[w] \in Requests /\ since[w] \in 1..Request!Current /\ Open(w)
        /\ answers[w] = <<>> /\ filtered[w] \in Nat
        /\ evaluated[w] \in Seq(Nat) /\ Request!Current \in Nat
    BY <1>0 DEF RequestsInductive, WorkerIsSound, PlaceIsSound, RequestsTyped,
       Request!Current
  <2>2. Asks(w) \in Nat
    BY <2>1, QuestionsAreNumbered DEF Asks, Request!Questions
  <2> QED BY <1>0, <2>1, <2>2
<1> HIDE DEF ignored
<1>2. evaluated'[w] = (IF ignored THEN evaluated[w] ELSE Append(evaluated[w], k))
      /\ filtered'[w] = k /\ evaluated'[w] \in Seq(Nat)
  BY <1>0, <1>1 DEF RequestsInductive, RequestsTyped
<1> HIDE DEF k
<1>3. RequestsTyped' /\ CacheIsOfItsSnapshot'
  <2>1. CacheIsOfItsSnapshot'
    BY <1>0, CacheStays
  <2>2. RequestsTyped
    BY DEF RequestsInductive
  <2>3. filtered' \in [Workers -> Nat] /\ evaluated' \in [Workers -> Seq(Nat)]
    BY <1>0, <1>1, <1>2, <2>2 DEF RequestsTyped
  <2>4. RequestsTyped'
    BY <1>0, <2>2, <2>3 DEF RequestsTyped, Request!Current
  <2> QED BY <2>1, <2>4
<1>4. \A v \in Workers \ {w} : Unmoved(v)
  BY <1>0 DEF Unmoved, RequestsInductive, RequestsTyped
<1>5. Asks(w)' = Asks(w) /\ Request!InForce(w)' = Request!InForce(w)
      /\ Request!Questions(w)' = Request!Questions(w)
  BY <1>0 DEF Asks, Request!Questions, Request!InForce, Request!Current
<1>6. PlaceIsSound(w)'
  BY <1>0, <1>1, <1>2, <1>5 DEF PlaceIsSound, Open, Request!Current
<1>7. FilterIsSound(w)'
  <2>1. FilterIsSound(w)
    BY DEF RequestsInductive, WorkerIsSound
  <2>2. CASE ignored
    <3>1. Request!Current \in Request!InForce(w)
      BY <1>1 DEF Request!InForce
    <3>2. \E serial \in Request!InForce(w) :
              Request!Questions(w)[k].type \in published[serial].ignored
      BY <2>2, <3>1 DEF ignored
    <3>3. \A q \in 1..k : q = k \/ q \in 1..filtered[w]
      BY <1>1 DEF k
    <3>4. 1..filtered[w] \subseteq 1..k
      BY <1>1 DEF k
    <3> QED BY <1>0, <1>2, <1>5, <2>1, <2>2, <3>2, <3>3, <3>4 DEF FilterIsSound
  <2>3. CASE ~ignored
    <3> DEFINE e == evaluated[w]
               f == Append(e, k)
    <3>1. /\ evaluated'[w] = f /\ Len(f) = Len(e) + 1 /\ f[Len(e) + 1] = k
          /\ \A n \in 1..Len(e) : f[n] = e[n]
      BY <1>1, <1>2, <2>3
    <3>2. \A q \in 1..k : q = k \/ q \in 1..filtered[w]
      BY <1>1 DEF k
    <3>3. 1..filtered[w] \subseteq 1..k /\ k \in 1..k
      BY <1>1 DEF k
    <3>4. /\ \A n \in 1..Len(f) : n \in 1..Len(e) \/ n = Len(e) + 1
          /\ 1..Len(e) \subseteq 1..Len(f) /\ Len(e) + 1 \in 1..Len(f)
      BY <1>1, <3>1
    <3> HIDE DEF f
    <3>5. \A n \in 1..Len(f) : f[n] \in 1..k
      BY <2>1, <3>1, <3>3, <3>4 DEF FilterIsSound
    <3>6. \A q \in 1..k :
             \/ \E serial \in Request!InForce(w) :
                   Request!Questions(w)[q].type \in published[serial].ignored
             \/ \E n \in 1..Len(f) : f[n] = q
      BY <2>1, <3>1, <3>2, <3>4 DEF FilterIsSound
    <3> QED BY <1>0, <1>2, <1>5, <3>1, <3>5, <3>6 DEF FilterIsSound
  <2> QED BY <2>2, <2>3
<1>8. AnswersAreSound(w)'
  <2>1. answers'[w] = <<>> /\ Len(answers'[w]) = 0 /\ Len(evaluated'[w]) \in Nat
    BY <1>0, <1>1, <1>2
  <2> QED BY <2>1 DEF AnswersAreSound
<1> QED BY <1>0, <1>3, <1>4, <1>6, <1>7, <1>8, WorkerMoves DEF WorkerIsSound

\* A step that only tells the time, captures a snapshot or ends the filter.
LEMMA PlaceChanges ==
    ASSUME RequestsInductive, NEW w \in Workers, pc[w] # "idle",
           UNCHANGED <<published, cache, minute, request, since, filtered, evaluated,
                       answers>>,
           NEW p \in {"decide", "captured", "computing", "done"},
           pc' = [pc EXCEPT ![w] = p],
           \/ UNCHANGED now
           \/ answers[w] = <<>> /\ now' = [now EXCEPT ![w] = minute],
           UNCHANGED held \/ held' = [held EXCEPT ![w] = Request!Current],
           row' = [row EXCEPT ![w] = row'[w]],
           row'[w] \in {Nobody} \cup [question : Nat, decision : Verdicts],
           PlaceIsSound(w)'
    PROVE  RequestsInductive'
<1>1. RequestsTyped' /\ CacheIsOfItsSnapshot'
  <2>1. CacheIsOfItsSnapshot'
    BY CacheStays
  <2>2. /\ now' \in [Workers -> 0..MaxMinute] /\ held' \in [Workers -> Nat]
        /\ row' \in [Workers -> {Nobody} \cup [question : Nat, decision : Verdicts]]
    <3>1. /\ now \in [Workers -> 0..MaxMinute] /\ minute \in 0..MaxMinute
          /\ held \in [Workers -> Nat] /\ Request!Current \in Nat
          /\ row \in [Workers -> {Nobody} \cup [question : Nat, decision : Verdicts]]
      BY DEF RequestsInductive, RequestsTyped, Request!Current
    <3>2. now' \in [Workers -> 0..MaxMinute]
      BY <3>1
    <3>3. held' \in [Workers -> Nat]
      BY <3>1
    <3>4. row' \in [Workers -> {Nobody} \cup [question : Nat, decision : Verdicts]]
      BY <3>1
    <3> QED BY <3>2, <3>3, <3>4
  <2>3. RequestsTyped
    BY DEF RequestsInductive
  <2>4. pc' \in [Workers -> {"idle", "filter", "decide", "captured", "computing",
                            "answered", "done"}]
    BY <2>3 DEF RequestsTyped
  <2>5. RequestsTyped'
    BY <2>2, <2>3, <2>4 DEF RequestsTyped, Request!Current
  <2> QED BY <2>1, <2>5
<1>2. \A v \in Workers \ {w} : Unmoved(v)
  <2> SUFFICES ASSUME NEW v \in Workers \ {w} PROVE Unmoved(v)
    OBVIOUS
  <2>1. now'[v] = now[v] /\ held'[v] = held[v] /\ row'[v] = row[v] /\ pc'[v] = pc[v]
    BY DEF RequestsInductive, RequestsTyped
  <2> QED BY <2>1 DEF Unmoved
<1>3. FilterIsSound(w)' /\ AnswersAreSound(w)'
  <2>1. FilterIsSound(w) /\ AnswersAreSound(w)
    BY DEF RequestsInductive, WorkerIsSound
  <2>2. /\ Request!InForce(w)' = Request!InForce(w)
        /\ Request!Questions(w)' = Request!Questions(w)
    BY DEF Request!InForce, Request!Current, Request!Questions
  <2>3. FilterIsSound(w)'
    BY <2>1, <2>2 DEF FilterIsSound
  <2>4. CASE answers[w] = <<>>
    <3>1. Len(answers[w]) = 0
      BY <2>4
    <3> QED BY <2>1, <2>3, <3>1 DEF AnswersAreSound
  <2>5. CASE UNCHANGED now
    <3>1. \A q, serial : Request!Exact(w, q, serial)' = Request!Exact(w, q, serial)
      BY <2>2, <2>5 DEF Request!Exact, Request!Snap
    <3> QED BY <2>1, <2>2, <2>3, <3>1 DEF AnswersAreSound
  <2> QED BY <2>4, <2>5
<1> QED BY <1>1, <1>2, <1>3, WorkerMoves DEF WorkerIsSound

\* What is known of a thread that is answering.
LEMMA AtWork ==
    ASSUME RequestsInductive, NEW w \in Workers, pc[w] # "idle"
    PROVE  /\ request[w] \in Requests /\ since[w] \in 1..Request!Current
           /\ Request!Current \in Nat /\ Asks(w) \in Nat
           /\ evaluated[w] \in Seq(Nat) /\ Len(evaluated[w]) \in Nat
           /\ answers[w] \in Seq([serial : Nat, decision : Verdicts])
           /\ Len(answers[w]) \in Nat /\ Len(answers[w]) <= Len(evaluated[w])
           /\ \A n \in 1..Len(evaluated[w]) : evaluated[w][n] \in 1..Asks(w)
           /\ Request!InForce(w) \subseteq 1..Request!Current
<1>1. /\ RequestsTyped /\ PlaceIsSound(w) /\ FilterIsSound(w) /\ AnswersAreSound(w)
  BY DEF RequestsInductive, WorkerIsSound
<1>2. /\ request[w] \in Requests /\ since[w] \in 1..Request!Current
      /\ Request!Current \in Nat /\ filtered[w] <= Asks(w) /\ filtered[w] \in Nat
  BY <1>1 DEF PlaceIsSound, RequestsTyped, Request!Current
<1>3. Asks(w) \in Nat
  BY <1>2, QuestionsAreNumbered DEF Asks, Request!Questions
<1>4. /\ evaluated[w] \in Seq(Nat)
      /\ answers[w] \in Seq([serial : Nat, decision : Verdicts])
  BY <1>1 DEF RequestsTyped
<1>5. Len(evaluated[w]) \in Nat /\ Len(answers[w]) \in Nat
  BY <1>4, LenProperties
<1>6. \A n \in 1..Len(evaluated[w]) : evaluated[w][n] \in 1..Asks(w)
  BY <1>1, <1>2, <1>3 DEF FilterIsSound
<1>7. Request!InForce(w) \subseteq 1..Request!Current
  BY <1>2 DEF Request!InForce
<1>8. Len(answers[w]) <= Len(evaluated[w])
  BY <1>1 DEF AnswersAreSound
<1> QED BY <1>2, <1>3, <1>4, <1>5, <1>6, <1>7, <1>8

LEMMA BypassIsSound ==
    ASSUME RequestsInductive, NEW w \in Workers, Request!Bypass(w)
    PROVE  RequestsInductive'
<1>1. /\ pc[w] = "filter" /\ filtered[w] = Asks(w) /\ evaluated[w] = <<>>
      /\ pc' = [pc EXCEPT ![w] = "done"]
      /\ UNCHANGED <<published, resetDue, minute, cache, request, since, filtered,
                     evaluated, now, held, answers, row>>
  BY DEF Request!Bypass, Request!shared, Asks
<1>2. /\ row[w] = Nobody /\ answers[w] = <<>> /\ PlaceIsSound(w)
      /\ row' = [row EXCEPT ![w] = row'[w]] /\ pc'[w] = "done"
  BY <1>1 DEF RequestsInductive, WorkerIsSound, PlaceIsSound, Open, RequestsTyped
<1>3. Asks(w)' = Asks(w) /\ Request!Current' = Request!Current
  BY <1>1 DEF Asks, Request!Questions, Request!Current
<1>4. PlaceIsSound(w)'
  BY <1>1, <1>2, <1>3 DEF PlaceIsSound
<1> QED BY <1>1, <1>2, <1>4, PlaceChanges

LEMMA BeginIsSound ==
    ASSUME RequestsInductive, NEW w \in Workers, Request!Begin(w)
    PROVE  RequestsInductive'
<1>1. /\ pc[w] = "filter" /\ filtered[w] = Asks(w) /\ evaluated[w] # <<>>
      /\ pc' = [pc EXCEPT ![w] = "decide"] /\ now' = [now EXCEPT ![w] = minute]
      /\ UNCHANGED <<published, resetDue, minute, cache, request, since, filtered,
                     evaluated, held, answers, row>>
  BY DEF Request!Begin, Request!shared, Asks
<1>2. /\ Open(w) /\ row[w] = Nobody /\ answers[w] = <<>> /\ PlaceIsSound(w)
      /\ row' = [row EXCEPT ![w] = row'[w]] /\ pc'[w] = "decide"
  BY <1>1 DEF RequestsInductive, WorkerIsSound, PlaceIsSound, Open, RequestsTyped
<1>3. Asks(w)' = Asks(w) /\ Request!Current' = Request!Current /\ Open(w)'
  BY <1>1, <1>2 DEF Asks, Request!Questions, Request!Current, Open
<1>4. Len(answers[w]) = 0 /\ Len(evaluated[w]) > 0
  <2>1. evaluated[w] \in Seq(Nat)
    BY <1>1, AtWork
  <2> QED BY <1>1, <1>2, <2>1
<1>5. PlaceIsSound(w)'
  BY <1>1, <1>2, <1>3, <1>4 DEF PlaceIsSound
<1> QED BY <1>1, <1>2, <1>5, PlaceChanges

LEMMA CaptureIsSound ==
    ASSUME RequestsInductive, NEW w \in Workers, Request!Capture(w)
    PROVE  RequestsInductive'
<1>1. /\ pc[w] = "decide" /\ pc' = [pc EXCEPT ![w] = "captured"]
      /\ held' = [held EXCEPT ![w] = Request!Current]
      /\ UNCHANGED <<published, resetDue, minute, cache, request, since, filtered,
                     evaluated, now, answers, row>>
  BY DEF Request!Capture, Request!shared
<1>2. /\ Open(w) /\ row[w] = Nobody /\ PlaceIsSound(w)
      /\ row' = [row EXCEPT ![w] = row'[w]] /\ pc'[w] = "captured"
      /\ held'[w] = Request!Current
  BY <1>1 DEF RequestsInductive, WorkerIsSound, PlaceIsSound, Open, RequestsTyped
<1>3. Asks(w)' = Asks(w) /\ Request!Current' = Request!Current /\ Open(w)'
      /\ Request!InForce(w)' = Request!InForce(w)
  BY <1>1, <1>2 DEF Asks, Request!Questions, Request!Current, Open, Request!InForce
<1>4. Request!Current \in Request!InForce(w)
  BY <1>1, AtWork DEF Request!InForce
<1>5. PlaceIsSound(w)'
  BY <1>1, <1>2, <1>3, <1>4 DEF PlaceIsSound
<1> QED BY <1>1, <1>2, <1>5, PlaceChanges

LEMMA ReplyIsSound ==
    ASSUME RequestsInductive, NEW w \in Workers, Request!Reply(w)
    PROVE  RequestsInductive'
<1> DEFINE n == Request!Reported(w)
           sent == [question |-> evaluated[w][n], decision |-> answers[w][n].decision]
<1>1. /\ pc[w] = "answered" /\ pc' = [pc EXCEPT ![w] = "done"]
      /\ row' = [row EXCEPT ![w] = sent]
      /\ UNCHANGED <<published, resetDue, minute, cache, request, since, filtered,
                     evaluated, now, held, answers>>
  BY DEF Request!Reply, Request!shared
<1>2. /\ Complete(w) /\ PlaceIsSound(w) /\ pc'[w] = "done" /\ row'[w] = sent
  BY <1>1 DEF RequestsInductive, WorkerIsSound, PlaceIsSound, RequestsTyped
<1>3. n \in 1..Len(answers[w])
  BY <1>1, <1>2, AtWork DEF Request!Reported, Complete
<1>4. sent \in [question : Nat, decision : Verdicts]
  <2>1. /\ answers[w] \in Seq([serial : Nat, decision : Verdicts])
        /\ evaluated[w] \in Seq(Nat) /\ Len(evaluated[w]) \in Nat
        /\ Len(answers[w]) \in Nat /\ Len(answers[w]) <= Len(evaluated[w])
    BY <1>1, AtWork
  <2> HIDE DEF n
  <2>2. n \in 1..Len(evaluated[w])
    BY <1>3, <2>1
  <2>3. answers[w][n] \in [serial : Nat, decision : Verdicts]
    BY <1>3, <2>1, ElementOfSeq
  <2>4. evaluated[w][n] \in Nat
    BY <2>1, <2>2, ElementOfSeq
  <2> QED BY <2>3, <2>4
<1>5. Request!Reported(w)' = Request!Reported(w)
  BY <1>1 DEF Request!Reported
<1> HIDE DEF n
<1>6. Asks(w)' = Asks(w) /\ Request!Current' = Request!Current /\ Complete(w)'
  BY <1>1, <1>2 DEF Asks, Request!Questions, Request!Current, Complete
<1>7. PlaceIsSound(w)'
  <2>1. row'[w] = [question |-> evaluated'[w][Request!Reported(w)'],
                   decision |-> answers'[w][Request!Reported(w)'].decision]
    BY <1>1, <1>2, <1>5 DEF n
  <2> QED BY <1>1, <1>2, <1>6, <2>1 DEF PlaceIsSound
<1>8. row' = [row EXCEPT ![w] = row'[w]]
  BY <1>1, <1>2
<1> QED BY <1>1, <1>2, <1>4, <1>7, <1>8, PlaceChanges

\* A sequence with one more item.
LEMMA Appended ==
    ASSUME NEW S, NEW s \in Seq(S), NEW x \in S
    PROVE  LET t == Append(s, x)
           IN  /\ t \in Seq(S) /\ Len(t) = Len(s) + 1 /\ t[Len(s) + 1] = x
               /\ \A i \in 1..Len(s) : t[i] = s[i]
OBVIOUS

\* Without the lists a mask makes no difference.
LEMMA EarlyIsExact ==
    ASSUME NEW snapshot, NEW ip, NEW qname, NEW time, NEW mask,
           \/ Request!BeforeLists(snapshot, ip, time) # Nobody
           \/ mask = Request!ActiveListMask(snapshot, time)
    PROVE  Request!DecideWith(snapshot, ip, qname, time, mask) =
              Request!Decide(snapshot, ip, qname, time)
BY DEF Request!Decide, Request!DecideWith

\* An exact answer to the next question keeps the invariant.
LEMMA AnswerIsSound ==
    ASSUME RequestsInductive, NEW w \in Workers, pc[w] \in {"captured", "computing"},
           UNCHANGED <<published, minute, request, since, filtered, evaluated, now,
                       held, row>>,
           cache'.serial \in 0..Request!Current, CacheIsOfItsSnapshot',
           NEW mask, Request!DecideHeld(w, mask),
           Request!Early(w)
           \/ mask = Request!ActiveListMask(Request!Snap(held[w]), now[w])
    PROVE  RequestsInductive'
<1> DEFINE before == answers[w]
           n == Len(before) + 1
           k == evaluated[w][n]
           verdict == Request!Exact(w, k, held[w])
           added == [serial |-> held[w], decision |-> verdict]
           after == Append(before, added)
           ended == verdict.block \/ n = Len(evaluated[w])
<1>1. /\ request[w] \in Requests /\ since[w] \in 1..Request!Current
      /\ Request!Current \in Nat /\ Asks(w) \in Nat /\ Len(evaluated[w]) \in Nat
      /\ before \in Seq([serial : Nat, decision : Verdicts])
      /\ Len(before) \in Nat /\ n \in 1..Len(evaluated[w]) /\ k \in 1..Asks(w)
      /\ held[w] \in Request!InForce(w) /\ held[w] \in 1..Request!Current
      /\ Open(w) /\ filtered[w] = Asks(w)
  <2>1. /\ held[w] \in Request!InForce(w) /\ Open(w) /\ filtered[w] = Asks(w)
        /\ Len(before) < Len(evaluated[w])
    BY DEF RequestsInductive, WorkerIsSound, PlaceIsSound
  <2>2. /\ request[w] \in Requests /\ since[w] \in 1..Request!Current
        /\ Request!Current \in Nat /\ Asks(w) \in Nat /\ Len(evaluated[w]) \in Nat
        /\ before \in Seq([serial : Nat, decision : Verdicts])
        /\ Len(before) \in Nat /\ Request!InForce(w) \subseteq 1..Request!Current
    BY AtWork
  <2>3. n \in 1..Len(evaluated[w])
    BY <2>1, <2>2
  <2> HIDE DEF n
  <2>4. k \in 1..Asks(w)
    BY <2>3, AtWork
  <2> QED BY <2>1, <2>2, <2>3, <2>4
<1>2. Request!DecideWith(Request!Snap(held[w]), request[w].ip, Request!Asked(w).name,
                         now[w], mask) = verdict
  <2>1. Request!Asked(w) = Request!Questions(w)[k]
    BY DEF Request!Asked
  <2> QED BY <2>1, EarlyIsExact DEF Request!Exact, Request!Early
<1>3. /\ answers' = [answers EXCEPT ![w] = Append(@, added)]
      /\ pc' = [pc EXCEPT ![w] = IF ended THEN "answered" ELSE "decide"]
  BY <1>2 DEF Request!DecideHeld, Request!AnswerWith
<1>4. added \in [serial : Nat, decision : Verdicts]
  <2>1. verdict \in Verdicts
    BY <1>1, ExactIsVerdict DEF RequestsInductive
  <2>2. held[w] \in Nat
    BY <1>1
  <2> HIDE DEF verdict
  <2> QED BY <2>1, <2>2
<1>5. /\ after \in Seq([serial : Nat, decision : Verdicts])
      /\ Len(after) = n /\ after[n] = added
      /\ \A m \in 1..Len(before) : after[m] = before[m]
      /\ \A m \in 1..n : m \in 1..Len(before) \/ m = n
      /\ n - 1 = Len(before)
  <2> HIDE DEF added
  <2>1. /\ after \in Seq([serial : Nat, decision : Verdicts])
        /\ Len(after) = n /\ after[n] = added
        /\ \A m \in 1..Len(before) : after[m] = before[m]
    BY <1>1, <1>4, Appended
  <2> QED BY <1>1, <2>1
<1>6. added.serial = held[w] /\ added.decision = verdict
  OBVIOUS
<1> HIDE DEF ended, verdict, after, added, n, k
<1>7. /\ answers'[w] = after /\ pc'[w] = (IF ended THEN "answered" ELSE "decide")
      /\ answers' \in [Workers -> Seq([serial : Nat, decision : Verdicts])]
      /\ pc' \in [Workers -> {"idle", "filter", "decide", "captured", "computing",
                             "answered", "done"}]
  <2>1. /\ answers \in [Workers -> Seq([serial : Nat, decision : Verdicts])]
        /\ pc \in [Workers -> {"idle", "filter", "decide", "captured", "computing",
                             "answered", "done"}]
    BY DEF RequestsInductive, RequestsTyped
  <2> QED BY <1>3, <1>5, <2>1 DEF after
<1>8. RequestsTyped'
  <2>1. RequestsTyped
    BY DEF RequestsInductive
  <2> QED BY <1>7, <2>1 DEF RequestsTyped, Request!Current
<1>9. \A v \in Workers \ {w} : Unmoved(v)
  BY <1>3 DEF Unmoved, RequestsInductive, RequestsTyped
<1>10. /\ Asks(w)' = Asks(w) /\ Request!Current' = Request!Current
       /\ Request!InForce(w)' = Request!InForce(w)
       /\ Request!Questions(w)' = Request!Questions(w)
       /\ \A q, serial : Request!Exact(w, q, serial)' = Request!Exact(w, q, serial)
  BY DEF Asks, Request!Questions, Request!Current, Request!InForce, Request!Exact,
     Request!Snap
<1>11. AnswersAreSound(w)'
  <2>1. /\ AnswersAreSound(w) /\ k = evaluated[w][n]
    BY DEF RequestsInductive, WorkerIsSound, k
  <2>2. \A m \in 1..n : /\ after[m].serial \in Request!InForce(w)
                        /\ after[m].decision =
                              Request!Exact(w, evaluated[w][m], after[m].serial)
    BY <1>1, <1>5, <1>6, <2>1 DEF AnswersAreSound, verdict
  <2>3. \A m \in 1..(n - 1) : ~after[m].decision.block
    BY <1>1, <1>5 DEF Open
  <2>4. n <= Len(evaluated[w])
    BY <1>1
  <2> QED BY <1>5, <1>7, <1>10, <2>2, <2>3, <2>4 DEF AnswersAreSound
<1>12. FilterIsSound(w)'
  <2>1. FilterIsSound(w)
    BY DEF RequestsInductive, WorkerIsSound
  <2> QED BY <1>10, <2>1 DEF FilterIsSound
<1>13. PlaceIsSound(w)'
  <2>1. row[w] = Nobody /\ n > 0 /\ n <= Len(evaluated[w])
    BY <1>1 DEF Open
  <2>2. CASE ended
    <3>1. Complete(w)'
      BY <1>1, <1>5, <1>6, <1>7, <1>10, <2>1, <2>2 DEF Complete, ended
    <3> QED BY <1>1, <1>7, <1>10, <2>1, <2>2, <3>1 DEF PlaceIsSound
  <2>3. CASE ~ended
    <3>1. \A m \in 1..n : ~after[m].decision.block
      BY <1>1, <1>5, <1>6, <2>3 DEF Open, ended
    <3>2. n < Len(evaluated[w])
      BY <1>1, <2>1, <2>3 DEF ended
    <3>3. Open(w)'
      BY <1>5, <1>7, <2>1, <3>1 DEF Open
    <3> QED BY <1>1, <1>5, <1>7, <1>10, <2>3, <3>2, <3>3 DEF PlaceIsSound
  <2> QED BY <2>2, <2>3
<1> QED BY <1>8, <1>9, <1>11, <1>12, <1>13, WorkerMoves DEF WorkerIsSound

LEMMA ConsultIsSound ==
    ASSUME RequestsInductive, NEW w \in Workers, Request!Consult(w)
    PROVE  RequestsInductive'
<1>1. /\ pc[w] = "captured"
      /\ UNCHANGED <<published, resetDue, minute, cache, request, since, filtered,
                     evaluated, now, held, row>>
      /\ \/ Request!Early(w) /\ Request!DecideHeld(w, {})
         \/ ~Request!Early(w) /\ Request!Hit(w) /\ Request!DecideHeld(w, cache.mask)
         \/ pc' = [pc EXCEPT ![w] = "computing"] /\ UNCHANGED answers
  BY DEF Request!Consult, Request!shared
<1>2. cache'.serial \in 0..Request!Current /\ CacheIsOfItsSnapshot'
  BY <1>1, CacheStays DEF RequestsInductive, RequestsTyped
<1>3. CASE Request!Early(w) /\ Request!DecideHeld(w, {})
  BY <1>1, <1>2, <1>3, AnswerIsSound
<1>4. CASE Request!Hit(w) /\ Request!DecideHeld(w, cache.mask)
  <2>1. held[w] \in Request!InForce(w)
    BY <1>1 DEF RequestsInductive, WorkerIsSound, PlaceIsSound
  <2>2. cache.serial = held[w] /\ cache.minute = now[w] /\ cache.serial # 0
    BY <1>1, <1>4, <2>1, AtWork DEF Request!Hit
  <2>3. cache.mask = Request!ActiveListMask(Request!Snap(held[w]), now[w])
    BY <2>2 DEF RequestsInductive, CacheIsOfItsSnapshot
  <2> QED BY <1>1, <1>2, <1>4, <2>3, AnswerIsSound
<1>5. CASE pc' = [pc EXCEPT ![w] = "computing"] /\ UNCHANGED answers
  <2>1. /\ Open(w) /\ row[w] = Nobody /\ PlaceIsSound(w)
        /\ row' = [row EXCEPT ![w] = row'[w]] /\ pc'[w] = "computing"
    BY <1>1, <1>5 DEF RequestsInductive, WorkerIsSound, PlaceIsSound, Open, RequestsTyped
  <2>2. Asks(w)' = Asks(w) /\ Request!Current' = Request!Current /\ Open(w)'
        /\ Request!InForce(w)' = Request!InForce(w)
    BY <1>1, <1>5, <2>1 DEF Asks, Request!Questions, Request!Current, Open,
       Request!InForce
  <2>3. PlaceIsSound(w)'
    BY <1>1, <1>5, <2>1, <2>2 DEF PlaceIsSound
  <2> QED BY <1>1, <1>5, <2>1, <2>3, PlaceChanges
<1> QED BY <1>1, <1>3, <1>4, <1>5

LEMMA ComputeIsSound ==
    ASSUME RequestsInductive, NEW w \in Workers, Request!Compute(w)
    PROVE  RequestsInductive'
<1> DEFINE mask == Request!ActiveListMask(Request!Snap(held[w]), now[w])
<1>1. /\ pc[w] = "computing"
      /\ UNCHANGED <<published, minute, request, since, filtered, evaluated, now, held,
                     row>>
      /\ cache' = [serial |-> held[w], minute |-> now[w], mask |-> mask]
      /\ Request!DecideHeld(w, mask)
  BY DEF Request!Compute
<1>2. held[w] \in Request!InForce(w)
  BY <1>1 DEF RequestsInductive, WorkerIsSound, PlaceIsSound
<1>3. cache'.serial \in 0..Request!Current
  <2>1. held[w] \in 1..Request!Current
    BY <1>1, <1>2, AtWork
  <2>2. cache'.serial = held[w]
    BY <1>1
  <2> QED BY <1>1, <2>1, <2>2, AtWork
<1>4. CacheIsOfItsSnapshot'
  BY <1>1 DEF CacheIsOfItsSnapshot, Request!Snap
<1> HIDE DEF mask
<1>5. mask = Request!ActiveListMask(Request!Snap(held[w]), now[w])
  BY DEF mask
<1> QED BY <1>1, <1>3, <1>4, <1>5, AnswerIsSound

LEMMA LeaveIsSound ==
    ASSUME RequestsInductive, NEW w \in Workers, Request!Leave(w)
    PROVE  RequestsInductive'
<1>1. /\ pc' = [pc EXCEPT ![w] = "idle"] /\ request' = [request EXCEPT ![w] = Nobody]
      /\ since' = [since EXCEPT ![w] = 0] /\ filtered' = [filtered EXCEPT ![w] = 0]
      /\ evaluated' = [evaluated EXCEPT ![w] = <<>>] /\ now' = [now EXCEPT ![w] = 0]
      /\ held' = [held EXCEPT ![w] = 0] /\ answers' = [answers EXCEPT ![w] = <<>>]
      /\ row' = [row EXCEPT ![w] = Nobody]
      /\ UNCHANGED <<published, resetDue, minute, cache>>
  BY DEF Request!Leave, Request!shared
<1>2. RequestsTyped
  BY DEF RequestsInductive
<1>3. /\ pc'[w] = "idle" /\ filtered'[w] = 0 /\ evaluated'[w] = <<>>
      /\ answers'[w] = <<>> /\ row'[w] = Nobody
      /\ Len(answers'[w]) = 0 /\ Len(evaluated'[w]) = 0
  BY <1>1, <1>2 DEF RequestsTyped
<1>4. RequestsTyped'
  <2>0. pc' \in [Workers -> {"idle", "filter", "decide", "captured", "computing",
                            "answered", "done"}]
    BY <1>1, <1>2 DEF RequestsTyped
  <2>1. /\ request' \in [Workers -> Requests \cup {Nobody}]
        /\ since' \in [Workers -> Nat] /\ filtered' \in [Workers -> Nat]
        /\ held' \in [Workers -> Nat]
    BY <1>1, <1>2 DEF RequestsTyped
  <2>2. now' \in [Workers -> 0..MaxMinute]
    BY <1>1, <1>2, RequestConstants DEF RequestsTyped
  <2>3. evaluated' \in [Workers -> Seq(Nat)]
    <3>1. evaluated \in [Workers -> Seq(Nat)] /\ <<>> \in Seq(Nat)
      BY <1>2 DEF RequestsTyped
    <3> QED BY <1>1, <3>1
  <2>5. answers' \in [Workers -> Seq([serial : Nat, decision : Verdicts])]
    <3> DEFINE S == Seq([serial : Nat, decision : Verdicts])
    <3>1. <<>> \in S
      OBVIOUS
    <3>2. answers \in [Workers -> S]
      BY <1>2 DEF RequestsTyped
    <3> HIDE DEF S
    <3>3. answers' \in [Workers -> S]
      BY <1>1, <3>1, <3>2
    <3> QED BY <3>3 DEF S
  <2>4. row' \in [Workers -> {Nobody} \cup [question : Nat, decision : Verdicts]]
    BY <1>1, <1>2 DEF RequestsTyped
  <2> QED BY <1>1, <1>2, <2>0, <2>1, <2>2, <2>3, <2>4, <2>5 DEF RequestsTyped, Request!Current
<1>5. \A v \in Workers \ {w} : Unmoved(v)
  BY <1>1, <1>2 DEF Unmoved, RequestsTyped
<1>6. PlaceIsSound(w)' /\ FilterIsSound(w)' /\ AnswersAreSound(w)'
  BY <1>3 DEF PlaceIsSound, FilterIsSound, AnswersAreSound, Open
<1> QED BY <1>1, <1>4, <1>5, <1>6, CacheStays, WorkerMoves DEF WorkerIsSound

\* What is shared changes: a publication, a reset of the cache, the clock.
LEMMA SharedIsSound ==
    ASSUME RequestsInductive, Request!Publish \/ Request!ResetCache \/ Request!Tick
    PROVE  RequestsInductive'
<1>1. RequestsTyped /\ CacheIsOfItsSnapshot
  BY DEF RequestsInductive
<1>2. /\ UNCHANGED <<pc, request, since, filtered, evaluated, now, held, answers, row>>
      /\ \/ /\ \E c \in Policies : published' = Append(published, c)
            /\ UNCHANGED <<minute, cache>>
         \/ cache' = Request!NoCache /\ UNCHANGED <<published, minute>>
         \/ minute < MaxMinute /\ minute' = minute + 1 /\ UNCHANGED <<published, cache>>
  BY DEF Request!Publish, Request!ResetCache, Request!Tick, Request!local
<1>3. /\ Grows /\ published' \in Seq(Policies) /\ Request!Current' > 0
  <2>1. CASE \E c \in Policies : published' = Append(published, c)
    <3>1. PICK c \in Policies : published' = Append(published, c)
      BY <2>1
    <3>2. published \in Seq(Policies) /\ Len(published) \in Nat
      BY <1>1 DEF RequestsTyped
    <3>3. /\ published' \in Seq(Policies) /\ Len(published') = Len(published) + 1
          /\ \A i \in 1..Len(published) : published'[i] = published[i]
      BY <3>1, <3>2, Appended
    <3> QED BY <3>2, <3>3 DEF Grows, Request!Current
  <2>2. CASE UNCHANGED published
    BY <1>1, <2>2 DEF Grows, Request!Current, RequestsTyped
  <2> QED BY <1>2, <2>1, <2>2
<1>4. minute' \in 0..MaxMinute
  BY <1>1, <1>2, RequestConstants DEF RequestsTyped
<1>5. cache'.serial \in 0..Request!Current' /\ CacheIsOfItsSnapshot'
  <2>1. CASE cache' = Request!NoCache
    BY <1>3, <2>1 DEF CacheIsOfItsSnapshot, Request!NoCache, Grows
  <2>2. CASE UNCHANGED cache
    <3>1. cache.serial \in 0..Request!Current
      BY <1>1 DEF RequestsTyped
    <3>2. cache.serial \in 0..Request!Current'
      BY <1>3, <3>1 DEF Grows
    <3>3. cache.serial # 0 => published'[cache.serial] = published[cache.serial]
      BY <1>3, <3>1 DEF Grows
    <3> QED BY <1>1, <2>2, <3>2, <3>3 DEF CacheIsOfItsSnapshot, Request!Snap
  <2> QED BY <1>2, <2>1, <2>2
<1>6. RequestsTyped'
  BY <1>1, <1>2, <1>3, <1>4, <1>5 DEF RequestsTyped
<1>7. ASSUME NEW v \in Workers PROVE WorkerIsSound(v)'
  BY <1>1, <1>2, <1>3, WorkerStays DEF Unmoved, RequestsInductive
<1> QED BY <1>5, <1>6, <1>7 DEF RequestsInductive

LEMMA RequestsInitInductive == Request!Init => RequestsInductive
<1> SUFFICES ASSUME NEW c \in Policies, Request!Setup(c) PROVE RequestsInductive
  BY DEF Request!Init
<1>1. published \in Seq(Policies) /\ Len(published) = 1
  BY DEF Request!Setup
<1>2. RequestsTyped
  <2>1. /\ pc \in [Workers -> {"idle", "filter", "decide", "captured", "computing",
                              "answered", "done"}]
        /\ request \in [Workers -> Requests \cup {Nobody}]
        /\ since \in [Workers -> Nat] /\ filtered \in [Workers -> Nat]
        /\ held \in [Workers -> Nat]
        /\ row \in [Workers -> {Nobody} \cup [question : Nat, decision : Verdicts]]
    BY DEF Request!Setup
  <2>2. minute \in 0..MaxMinute /\ now \in [Workers -> 0..MaxMinute]
    BY RequestConstants DEF Request!Setup
  <2>3. /\ evaluated \in [Workers -> Seq(Nat)]
        /\ answers \in [Workers -> Seq([serial : Nat, decision : Verdicts])]
    BY DEF Request!Setup
  <2>4. cache.serial \in 0..Request!Current /\ Request!Current > 0
    BY <1>1 DEF Request!Setup, Request!NoCache, Request!Current
  <2> QED BY <1>1, <2>1, <2>2, <2>3, <2>4 DEF RequestsTyped
<1>3. CacheIsOfItsSnapshot
  BY DEF CacheIsOfItsSnapshot, Request!Setup, Request!NoCache
<1>4. ASSUME NEW w \in Workers PROVE WorkerIsSound(w)
  <2>1. /\ pc[w] = "idle" /\ filtered[w] = 0 /\ evaluated[w] = <<>>
        /\ answers[w] = <<>> /\ row[w] = Nobody
        /\ Len(answers[w]) = 0 /\ Len(evaluated[w]) = 0
    BY DEF Request!Setup
  <2> QED BY <2>1 DEF WorkerIsSound, PlaceIsSound, FilterIsSound, AnswersAreSound, Open
<1> QED BY <1>2, <1>3, <1>4 DEF RequestsInductive

LEMMA RequestsNextInductive ==
    RequestsInductive /\ [Request!Next]_(Request!vars) => RequestsInductive'
<1> SUFFICES ASSUME RequestsInductive, [Request!Next]_(Request!vars)
             PROVE  RequestsInductive'
  OBVIOUS
<1>1. CASE UNCHANGED Request!vars
  <2>1. Grows
    BY <1>1 DEF RequestsInductive, RequestsTyped, Grows, Request!Current, Request!vars,
       Request!shared
  <2>2. ASSUME NEW v \in Workers PROVE WorkerIsSound(v)'
    BY <1>1, <2>1, WorkerStays DEF RequestsInductive, Unmoved, Request!vars, Request!local
  <2>3. RequestsTyped' /\ CacheIsOfItsSnapshot'
    BY <1>1, CacheStays DEF RequestsInductive, RequestsTyped, Request!vars,
       Request!shared, Request!local, Request!Current
  <2> QED BY <2>2, <2>3 DEF RequestsInductive
<1>2. ASSUME NEW w \in Workers,
             Request!Arrive(w) \/ Request!Filter(w) \/ Request!Bypass(w)
             \/ Request!Begin(w) \/ Request!Capture(w) \/ Request!Consult(w)
             \/ Request!Compute(w) \/ Request!Reply(w) \/ Request!Leave(w)
      PROVE  RequestsInductive'
  BY <1>2, ArriveIsSound, FilterIsDone, BypassIsSound, BeginIsSound, CaptureIsSound,
     ConsultIsSound, ComputeIsSound, ReplyIsSound, LeaveIsSound
<1>3. CASE Request!Publish \/ Request!ResetCache \/ Request!Tick
  BY <1>3, SharedIsSound
<1> QED BY <1>1, <1>2, <1>3 DEF Request!Next

LEMMA RequestsInductiveIsEnough ==
    RequestsInductive => AnswersAreExact /\ RequestsAreWhole
<1> SUFFICES ASSUME RequestsInductive PROVE AnswersAreExact /\ RequestsAreWhole
  OBVIOUS
<1>1. ASSUME NEW w \in Workers
      PROVE  /\ answers[w] \in Seq([serial : Nat, decision : Verdicts])
             /\ DOMAIN answers[w] = 1..Len(answers[w])
  <2>1. answers[w] \in Seq([serial : Nat, decision : Verdicts])
    BY DEF RequestsInductive, RequestsTyped
  <2> QED BY <2>1, LenProperties
<1>2. AnswersAreExact
  BY <1>1 DEF AnswersAreExact, Request!AnswersAreExact, RequestsInductive, WorkerIsSound,
     AnswersAreSound
\* Who is answered has a blocking answer at the end or all answers.
<1>3. ASSUME NEW w \in Workers, pc[w] = "done", row[w] # Nobody
      PROVE  LET n == Request!Reported(w)
             IN  /\ n \in 1..Len(answers[w])
                 /\ row[w].question = evaluated[w][n]
                 /\ row[w].decision = answers[w][n].decision
                 /\ row[w].decision.block =>
                       \E m \in 1..Len(answers[w]) : answers[w][m].decision.block
                 /\ ~row[w].decision.block =>
                       /\ \A m \in 1..Len(answers[w]) : ~answers[w][m].decision.block
                       /\ Len(answers[w]) = Len(evaluated[w])
  <2> DEFINE n == Request!Reported(w)
             last == Len(answers[w])
  <2>1. /\ Complete(w) /\ last \in Nat /\ last > 0
        /\ row[w] = [question |-> evaluated[w][n], decision |-> answers[w][n].decision]
    BY <1>3, AtWork DEF RequestsInductive, WorkerIsSound, PlaceIsSound, Complete
  <2>2. \A m \in 1..(last - 1) : ~answers[w][m].decision.block
    BY DEF RequestsInductive, WorkerIsSound, AnswersAreSound
  <2>3. CASE answers[w][last].decision.block
    <3>1. n = last
      BY <2>3 DEF Request!Reported
    <3>2. last \in 1..last
      BY <2>1
    <3> HIDE DEF n, last
    <3> QED BY <2>1, <2>3, <3>1, <3>2 DEF n, last
  <2>4. CASE ~answers[w][last].decision.block
    <3>1. n = 1 /\ 1 \in 1..last
      BY <2>1, <2>4 DEF Request!Reported
    <3>2. \A m \in 1..last : ~answers[w][m].decision.block
      BY <2>1, <2>2, <2>4
    <3>3. Len(answers[w]) = Len(evaluated[w])
      BY <2>1, <2>4 DEF Complete
    <3> QED BY <2>1, <3>1, <3>2, <3>3
  <2> QED BY <2>3, <2>4
<1>4. ASSUME NEW w \in Workers, row[w] # Nobody PROVE pc[w] = "done"
  <2>1. pc[w] \in {"idle", "filter", "decide", "captured", "computing", "answered", "done"}
    BY DEF RequestsInductive, RequestsTyped
  <2> QED BY <1>4, <2>1 DEF RequestsInductive, WorkerIsSound, PlaceIsSound, Open
<1>5. Request!RowIsAboutItsQuestion
  <2> SUFFICES ASSUME NEW w \in Workers, row[w] # Nobody
               PROVE  /\ \E serial \in Request!InForce(w) :
                           row[w].decision = Request!Exact(w, row[w].question, serial)
                      /\ row[w].decision.block <=>
                            \E m \in DOMAIN answers[w] : answers[w][m].decision.block
    BY DEF Request!RowIsAboutItsQuestion
  <2> DEFINE n == Request!Reported(w)
  <2>1. /\ n \in 1..Len(answers[w])
        /\ row[w].question = evaluated[w][n]
        /\ row[w].decision = answers[w][n].decision
        /\ row[w].decision.block =>
              \E m \in 1..Len(answers[w]) : answers[w][m].decision.block
        /\ ~row[w].decision.block =>
              \A m \in 1..Len(answers[w]) : ~answers[w][m].decision.block
    BY <1>3, <1>4
  <2> HIDE DEF n
  <2>2. /\ answers[w][n].serial \in Request!InForce(w)
        /\ answers[w][n].decision =
              Request!Exact(w, evaluated[w][n], answers[w][n].serial)
    BY <2>1 DEF RequestsInductive, WorkerIsSound, AnswersAreSound
  <2> QED BY <1>1, <2>1, <2>2
<1>6. Request!AllowedMeansExamined
  <2> SUFFICES ASSUME NEW w \in Workers, pc[w] = "done",
                      row[w] # Nobody => ~row[w].decision.block,
                      NEW k \in DOMAIN Request!Questions(w)
               PROVE  \E serial \in Request!InForce(w) :
                         \/ Request!Questions(w)[k].type \in published[serial].ignored
                         \/ ~Request!Exact(w, k, serial).block
    BY DEF Request!AllowedMeansExamined
  <2>1. k \in 1..Asks(w)
    BY AtWork, QuestionsAreNumbered DEF Asks, Request!Questions
  <2>2. /\ filtered[w] = Asks(w)
        /\ Len(answers[w]) = Len(evaluated[w])
        /\ \A m \in 1..Len(answers[w]) : ~answers[w][m].decision.block
    <3>1. CASE row[w] # Nobody
      BY <1>3, <3>1 DEF RequestsInductive, WorkerIsSound, PlaceIsSound, Complete
    <3>2. CASE row[w] = Nobody
      <4>1. ~(Complete(w) /\ row[w] = [question |-> evaluated[w][Request!Reported(w)],
                                  decision |-> answers[w][Request!Reported(w)].decision])
        <5> SUFFICES ASSUME Complete(w) PROVE
                [question |-> evaluated[w][Request!Reported(w)],
                 decision |-> answers[w][Request!Reported(w)].decision] # Nobody
          BY <3>2
        <5> DEFINE n == Request!Reported(w)
        <5>1. n \in 1..Len(answers[w]) /\ n \in 1..Len(evaluated[w])
          BY AtWork DEF Request!Reported, Complete
        <5> HIDE DEF n
        <5>2. /\ evaluated[w][n] \in 1..Asks(w)
              /\ answers[w][n].serial \in 1..Request!Current
              /\ answers[w][n].decision =
                    Request!Exact(w, evaluated[w][n], answers[w][n].serial)
          BY <5>1, AtWork DEF RequestsInductive, WorkerIsSound, AnswersAreSound
        <5>3. request[w] \in Requests
          BY AtWork
        <5>4. [question |-> evaluated[w][n], decision |-> answers[w][n].decision] # Nobody
          BY <5>2, <5>3, ExactIsVerdict DEF RequestsInductive
        <5> QED BY <5>4 DEF n
      <4>2. answers[w] = <<>> /\ evaluated[w] = <<>> /\ filtered[w] = Asks(w)
        BY <4>1 DEF RequestsInductive, WorkerIsSound, PlaceIsSound
      <4> QED BY <4>2
    <3> QED BY <3>1, <3>2
  <2>3. CASE \E n \in 1..Len(evaluated[w]) : evaluated[w][n] = k
    <3>1. PICK n \in 1..Len(answers[w]) : evaluated[w][n] = k
      BY <2>2, <2>3
    <3>2. /\ answers[w][n].serial \in Request!InForce(w)
          /\ answers[w][n].decision = Request!Exact(w, k, answers[w][n].serial)
      BY <3>1 DEF RequestsInductive, WorkerIsSound, AnswersAreSound
    <3> QED BY <2>2, <3>1, <3>2
  <2>4. CASE ~(\E n \in 1..Len(evaluated[w]) : evaluated[w][n] = k)
    BY <2>1, <2>2, <2>4 DEF RequestsInductive, WorkerIsSound, FilterIsSound
  <2> QED BY <2>3, <2>4
<1> QED BY <1>2, <1>5, <1>6 DEF RequestsAreWhole

\* Behaviours of the other parts have no requests.
NoRequests ==
    \A w \in Workers : pc[w] = "idle" /\ answers[w] = <<>> /\ row[w] = Nobody

PolicyInductive == IF part = "requests" THEN RequestsInductive ELSE NoRequests

LEMMA PolicyInitInductive == PolicyInit => PolicyInductive
BY RequestsInitInductive DEF PolicyInit, PolicyInductive, NoRequests, Request!Setup

LEMMA PolicyNextInductive ==
    PolicyInductive /\ [PolicyNext]_<<part, decisionVars, requestVars, scheduleVars>>
        => PolicyInductive'
<1> SUFFICES ASSUME PolicyInductive,
                    [PolicyNext]_<<part, decisionVars, requestVars, scheduleVars>>
             PROVE  PolicyInductive'
  OBVIOUS
<1>1. part' = part
  BY DEF PolicyNext
<1>2. CASE part = "requests"
  <2>1. [Request!Next]_(Request!vars)
    BY <1>2 DEF PolicyNext, requestVars, Request!vars, Request!shared, Request!local
  <2> QED BY <1>1, <1>2, <2>1, RequestsNextInductive DEF PolicyInductive
<1>3. CASE part # "requests"
  <2>1. UNCHANGED requestVars
    BY <1>3 DEF PolicyNext
  <2> QED BY <1>1, <1>3, <2>1 DEF PolicyInductive, NoRequests, requestVars
<1> QED BY <1>2, <1>3

LEMMA PolicyInductiveIsEnough == PolicyInductive => AnswersAreExact /\ RequestsAreWhole
<1>1. NoRequests => AnswersAreExact /\ RequestsAreWhole
  BY DEF NoRequests, AnswersAreExact, RequestsAreWhole, Request!AnswersAreExact,
     Request!AllowedMeansExamined, Request!RowIsAboutItsQuestion
<1> QED BY <1>1, RequestsInductiveIsEnough DEF PolicyInductive

\* Every answer is the one that the captured snapshot gives at the time of the
\* request, whatever mask was cached by whom and when, for any number of threads
\* and publications and all configurations (app/policy.py, decide and
\* _active_list_mask).
THEOREM AnswersStayExact == PolicySpec => []AnswersAreExact
<1>1. PolicyInductive => AnswersAreExact
  BY PolicyInductiveIsEnough
<1> QED BY <1>1, PolicyInitInductive, PolicyNextInductive, PTL DEF PolicySpec

\* A request that is not blocked had every question ignored or allowed by a
\* snapshot in use meanwhile, and the row that is logged is about its question
\* (app/policy.py, decide_with_log_row).
THEOREM RequestsStayWhole == PolicySpec => []RequestsAreWhole
<1>1. PolicyInductive => RequestsAreWhole
  BY PolicyInductiveIsEnough
<1> QED BY <1>1, PolicyInitInductive, PolicyNextInductive, PTL DEF PolicySpec

-----------------------------------------------------------------------------
(* Schedules, where a week has three days or more: dates.                  *)

WeekTicks == Schedule!WeekTicks
Ticks == Schedule!Ticks
Date(local) == local \div DayTicks
Clock(local) == Schedule!ClockTime(local)
Start(date) == date * DayTicks

LEMMA DayLength ==
    /\ DayTicks \in Nat /\ DayTicks > 0 /\ HourTicks \in Nat /\ HourTicks > 0
    /\ WeekDays \in Nat /\ WeekDays >= 3
BY ScheduleConstants

\* Quotient and remainder are the only ones.
LEMMA Quotients ==
    ASSUME NEW size \in Nat, size > 0, NEW n \in Int
    PROVE  /\ n \div size \in Int /\ n % size \in 0..(size - 1)
           /\ n = (n \div size) * size + (n % size)
           /\ \A q \in Int, r \in 0..(size - 1) :
                 n = q * size + r => q = n \div size /\ r = n % size
OBVIOUS

\* A local time is a date and a time of day.
LEMMA DateAndClock ==
    ASSUME NEW l \in Int
    PROVE  Date(l) \in Int /\ Clock(l) \in Ticks /\ l = Start(Date(l)) + Clock(l)
BY DayLength, Quotients
   DEF Date, Clock, Ticks, Start, Schedule!Ticks, Schedule!ClockTime

LEMMA StartIsInteger == ASSUME NEW d \in Int PROVE Start(d) \in Int
BY DayLength DEF Start

LEMMA DateIsOne ==
    ASSUME NEW d \in Int, NEW t \in Ticks
    PROVE  Date(Start(d) + t) = d /\ Clock(Start(d) + t) = t
<1>1. Start(d) + t \in Int /\ t \in 0..(DayTicks - 1)
  BY DayLength DEF Start, Ticks, Schedule!Ticks
<1> QED BY <1>1, DayLength, Quotients DEF Date, Clock, Start, Schedule!ClockTime

LEMMA NextStart == ASSUME NEW d \in Int PROVE Start(d + 1) = Start(d) + DayTicks
BY DayLength DEF Start

LEMMA StartOrder ==
    ASSUME NEW c \in Int, NEW d \in Int, c <= d
    PROVE  Start(c) <= Start(d)
<1>1. PICK k \in Nat : d = c + k
  <2>1. d - c \in Nat /\ d = c + (d - c)
    OBVIOUS
  <2> QED BY <2>1
<1>2. k * DayTicks \in Nat
  <2>1. \A m, n \in Nat : m * n \in Nat
    OBVIOUS
  <2> QED BY <1>1, <2>1, DayLength
<1>3. Start(d) = Start(c) + k * DayTicks
  BY <1>1, DayLength DEF Start
<1> QED BY <1>2, <1>3, StartIsInteger

\* The times of a date.
LEMMA DateIsRange ==
    ASSUME NEW l \in Int, NEW d \in Int
    PROVE  /\ Date(l) <= d <=> l < Start(d + 1)
           /\ d <= Date(l) <=> Start(d) <= l
<1>1. /\ Date(l) \in Int /\ l = Start(Date(l)) + Clock(l)
      /\ Clock(l) \in 0..(DayTicks - 1) /\ DayTicks \in Nat
  BY DateAndClock, DayLength DEF Ticks, Schedule!Ticks
<1>2. /\ Start(Date(l)) \in Int /\ Start(d) \in Int
      /\ Start(d + 1) = Start(d) + DayTicks
      /\ Start(Date(l) + 1) = Start(Date(l)) + DayTicks
  BY <1>1, StartIsInteger, NextStart
<1>3. Date(l) <= d => Start(Date(l)) <= Start(d)
  BY <1>1, StartOrder
<1>4. d + 1 <= Date(l) => Start(d + 1) <= Start(Date(l))
  BY <1>1, StartOrder
<1>5. d <= Date(l) => Start(d) <= Start(Date(l))
  BY <1>1, StartOrder
<1>6. Date(l) + 1 <= d => Start(Date(l) + 1) <= Start(d)
  BY <1>1, StartOrder
<1> QED BY <1>1, <1>2, <1>3, <1>4, <1>5, <1>6

LEMMA WeekLength ==
    /\ WeekTicks \in Nat /\ WeekTicks >= 3 * DayTicks
    /\ \A d \in Int : Start(d + WeekDays) = Start(d) + WeekTicks
<1>1. WeekTicks = WeekDays * DayTicks
  BY DEF WeekTicks, Schedule!WeekTicks
<1>2. PICK k \in Nat : WeekDays = 3 + k
  <2>1. WeekDays - 3 \in Nat /\ WeekDays = 3 + (WeekDays - 3)
    BY DayLength
  <2> QED BY <2>1
<1>3. k * DayTicks \in Nat /\ WeekTicks = 3 * DayTicks + k * DayTicks
  <2>1. \A m, n \in Nat : m * n \in Nat
    OBVIOUS
  <2> QED BY <1>1, <1>2, <2>1, DayLength
<1>4. WeekTicks \in Nat /\ WeekTicks >= 3 * DayTicks
  BY <1>3, DayLength
<1>5. \A d \in Int : Start(d + WeekDays) = Start(d) + WeekTicks
  BY <1>1, DayLength DEF Start
<1> QED BY <1>4, <1>5

\* A place in the week is a weekday and a time of day.
LEMMA PlaceInWeek ==
    ASSUME NEW l \in Int
    PROVE  /\ Schedule!Weekday(l) \in Schedule!Days
           /\ l % WeekTicks = Start(Schedule!Weekday(l)) + Clock(l)
<1> DEFINE q == Date(l) \div WeekDays
           day == Date(l) % WeekDays
<1>1. /\ q \in Int /\ day \in 0..(WeekDays - 1) /\ Date(l) \in Int
      /\ Date(l) = q * WeekDays + day
  BY DayLength, DateAndClock, Quotients
<1>2. day = Schedule!Weekday(l)
  BY DEF Schedule!Weekday, Date
<1>3. Clock(l) \in 0..(DayTicks - 1) /\ l = Start(Date(l)) + Clock(l)
  BY DateAndClock DEF Ticks, Schedule!Ticks
<1>4. WeekTicks = WeekDays * DayTicks /\ WeekTicks \in Nat /\ WeekTicks > 0
  BY WeekLength, DayLength DEF WeekTicks, Schedule!WeekTicks
<1> HIDE DEF q, day
<1>5. Start(Date(l)) = q * WeekTicks + Start(day)
  <2>1. Start(Date(l)) = (q * WeekDays + day) * DayTicks
    BY <1>1 DEF Start
  <2>2. (q * WeekDays + day) * DayTicks = q * (WeekDays * DayTicks) + day * DayTicks
    BY <1>1, DayLength
  <2> QED BY <2>1, <2>2, <1>4 DEF Start
<1>6. Start(day) >= 0 /\ Start(day) + DayTicks <= WeekTicks
  <2>1. day \in Int /\ day + 1 \in Int /\ 0 <= day /\ day + 1 <= WeekDays
        /\ WeekDays \in Int
    BY <1>1, DayLength
  <2>2. Start(0) <= Start(day) /\ Start(day + 1) <= Start(WeekDays)
    BY <2>1, StartOrder
  <2>3. Start(0) = 0 /\ Start(WeekDays) = WeekTicks
    BY <1>4, DayLength DEF Start
  <2>4. Start(day) \in Int /\ Start(day + 1) = Start(day) + DayTicks
    BY <2>1, StartIsInteger, NextStart
  <2> QED BY <2>2, <2>3, <2>4
<1>7. Start(day) + Clock(l) \in 0..(WeekTicks - 1)
  <2>1. Start(day) \in Int /\ DayTicks \in Nat
    BY <1>1, StartIsInteger, DayLength
  <2> QED BY <1>3, <1>4, <1>6, <2>1
<1>8. l = q * WeekTicks + (Start(day) + Clock(l))
  BY <1>1, <1>3, <1>4, <1>5, <1>7, StartIsInteger
<1>9. Start(day) + Clock(l) = l % WeekTicks
  <2>1. \A p \in Int, r \in 0..(WeekTicks - 1) :
            l = p * WeekTicks + r => r = l % WeekTicks
    BY <1>4, Quotients, SMTT(30)
  <2> QED BY <1>1, <1>7, <1>8, <2>1
<1> QED BY <1>1, <1>2, <1>9 DEF Schedule!Days

-----------------------------------------------------------------------------
(* Schedules: what a window covers.                                        *)

Active(w, l) == Schedule!WindowIsActive(w, l)

\* A time of a date that may lie in the next week.
LEMMA PlaceOfTime ==
    ASSUME NEW d \in Int, NEW t \in Ticks
    PROVE  (Start(d) + t) % WeekTicks = Start(d % WeekDays) + t
<1>1. Start(d) + t \in Int /\ Date(Start(d) + t) = d /\ Clock(Start(d) + t) = t
  BY DateIsOne, StartIsInteger DEF Ticks, Schedule!Ticks
<1>2. Schedule!Weekday(Start(d) + t) = d % WeekDays
  BY <1>1 DEF Schedule!Weekday, Date
<1> QED BY <1>1, <1>2, PlaceInWeek

LEMMA WeekdayOfDay ==
    ASSUME NEW d \in Schedule!Days
    PROVE  d \in Int /\ d % WeekDays = d /\ (d + 1) % WeekDays \in Schedule!Days
<1>1. d \in 0..(WeekDays - 1) /\ d = 0 * WeekDays + d
  BY DayLength DEF Schedule!Days
<1>2. d % WeekDays = d
  BY <1>1, DayLength, Quotients
<1>3. (d + 1) % WeekDays \in 0..(WeekDays - 1)
  BY <1>1, DayLength, Quotients
<1> QED BY <1>1, <1>2, <1>3 DEF Schedule!Days

\* Yesterday's tomorrow.
LEMMA DayAfter ==
    ASSUME NEW day \in Schedule!Days, NEW d \in Schedule!Days
    PROVE  (d + 1) % WeekDays = day <=> d = (day - 1) % WeekDays
<1>1. /\ day \in 0..(WeekDays - 1) /\ d \in 0..(WeekDays - 1)
      /\ WeekDays \in Nat /\ WeekDays >= 3
  BY DayLength DEF Schedule!Days
<1>2. (d + 1) % WeekDays = IF d = WeekDays - 1 THEN 0 ELSE d + 1
  <2>1. CASE d = WeekDays - 1
    <3>1. d + 1 = 1 * WeekDays + 0
      BY <1>1, <2>1
    <3> QED BY <1>1, <2>1, <3>1, Quotients
  <2>2. CASE d # WeekDays - 1
    <3>1. d + 1 = 0 * WeekDays + (d + 1) /\ d + 1 \in 0..(WeekDays - 1)
      BY <1>1, <2>2
    <3> QED BY <1>1, <2>2, <3>1, Quotients
  <2> QED BY <2>1, <2>2
<1>3. (day - 1) % WeekDays = IF day = 0 THEN WeekDays - 1 ELSE day - 1
  <2>1. CASE day = 0
    <3>1. day - 1 = (-1) * WeekDays + (WeekDays - 1) /\ WeekDays - 1 \in 0..(WeekDays - 1)
      BY <1>1, <2>1
    <3> QED BY <1>1, <2>1, <3>1, Quotients
  <2>2. CASE day # 0
    <3>1. day - 1 = 0 * WeekDays + (day - 1) /\ day - 1 \in 0..(WeekDays - 1)
      BY <1>1, <2>2
    <3> QED BY <1>1, <2>2, <3>1, Quotients
  <2> QED BY <2>1, <2>2
<1> QED BY <1>1, <1>2, <1>3

\* How long a window lasts that does not last the whole day.
LEMMA LengthOfWindow ==
    ASSUME NEW start \in Ticks, NEW end \in Ticks, start # end
    PROVE  (end - start) % DayTicks =
               IF start < end THEN end - start ELSE end - start + DayTicks
<1>1. /\ start \in 0..(DayTicks - 1) /\ end \in 0..(DayTicks - 1)
      /\ DayTicks \in Nat /\ DayTicks > 0
  BY DayLength DEF Ticks, Schedule!Ticks
<1>2. CASE start < end
  <2>1. end - start = 0 * DayTicks + (end - start) /\ end - start \in 0..(DayTicks - 1)
    BY <1>1, <1>2
  <2> QED BY <1>1, <1>2, <2>1, Quotients
<1>3. CASE end < start
  <2>1. /\ end - start = (-1) * DayTicks + (end - start + DayTicks)
        /\ end - start + DayTicks \in 0..(DayTicks - 1)
    BY <1>1, <1>3
  <2> QED BY <1>1, <1>3, <2>1, Quotients
<1> QED BY <1>1, <1>2, <1>3

\* Places in the week are equal when day and time are.
LEMMA SamePlace ==
    ASSUME NEW c \in Int, NEW d \in Int, NEW t \in Ticks, NEW u \in Ticks
    PROVE  Start(c) + t = Start(d) + u <=> c = d /\ t = u
BY DateIsOne

\* A window is active at a time whose place in the week it covers.
LEMMA WindowAsDocumented ==
    ASSUME NEW w \in Schedule!Windows, NEW l \in Int
    PROVE  Active(w, l) <=> l % WeekTicks \in Schedule!Covered(w)
<1> DEFINE day == Schedule!Weekday(l)
           time == Clock(l)
           Span == {t \in Ticks : t < (w.end - w.start) % DayTicks}
<1>1. /\ w.days \in SUBSET Schedule!Days /\ w.start \in Ticks /\ w.end \in Ticks
      /\ day \in Schedule!Days /\ time \in Ticks
      /\ l % WeekTicks = Start(day) + time
  BY PlaceInWeek, DateAndClock DEF Schedule!Windows, Ticks
<1>2. /\ Ticks = 0..(DayTicks - 1) /\ DayTicks \in Nat
      /\ \A d \in Schedule!Days : d \in Int /\ d % WeekDays = d
      /\ \A d \in Schedule!Days : (d + 1) % WeekDays \in Schedule!Days
  BY DayLength, WeekdayOfDay DEF Ticks, Schedule!Ticks
<1>3. Active(w, l) <=>
        IF w.start = w.end THEN day \in w.days
        ELSE IF w.start < w.end
             THEN day \in w.days /\ w.start <= time /\ time < w.end
             ELSE \/ day \in w.days /\ time >= w.start
                  \/ (day - 1) % WeekDays \in w.days /\ time < w.end
  <2>1. w.start \in Int /\ w.end \in Int
    BY <1>1, <1>2
  <2> QED BY <2>1 DEF Active, Schedule!WindowIsActive, Schedule!AfterMidnight, Clock
<1>4. l % WeekTicks \in Schedule!Covered(w) <=>
        IF w.start = w.end
        THEN \E d \in w.days, t \in Ticks : Start(day) + time = Start(d) + t
        ELSE \E d \in w.days, k \in Span :
                 Start(day) + time = (Start(d) + w.start + k) % WeekTicks
  BY <1>1 DEF Schedule!Covered, Start, WeekTicks, Ticks
<1>5. \A d \in w.days, k \in Span :
          /\ w.start + k \in Ticks =>
                (Start(d) + w.start + k) % WeekTicks = Start(d) + (w.start + k)
          /\ w.start + k \notin Ticks =>
                /\ w.start + k - DayTicks \in Ticks
                /\ (Start(d) + w.start + k) % WeekTicks
                       = Start((d + 1) % WeekDays) + (w.start + k - DayTicks)
  <2> SUFFICES ASSUME NEW d \in w.days, NEW k \in Span
               PROVE  /\ w.start + k \in Ticks =>
                            (Start(d) + w.start + k) % WeekTicks = Start(d) + (w.start + k)
                      /\ w.start + k \notin Ticks =>
                            /\ w.start + k - DayTicks \in Ticks
                            /\ (Start(d) + w.start + k) % WeekTicks
                                  = Start((d + 1) % WeekDays) + (w.start + k - DayTicks)
    OBVIOUS
  <2>1. d \in Schedule!Days /\ d \in Int /\ d % WeekDays = d /\ k \in Ticks /\ Start(d) \in Int
    BY <1>1, <1>2, StartIsInteger
  <2>0. /\ w.start \in 0..(DayTicks - 1) /\ k \in 0..(DayTicks - 1)
        /\ Start(d) \in Int /\ DayTicks \in Nat
    BY <1>1, <1>2, <2>1
  <2>2. CASE w.start + k \in Ticks
    <3>1. Start(d) + w.start + k = Start(d) + (w.start + k)
      BY <2>0
    <3> QED BY <2>1, <2>2, <3>1, PlaceOfTime
  <2>3. CASE w.start + k \notin Ticks
    <3>1. w.start + k - DayTicks \in Ticks
      BY <1>2, <2>0, <2>3
    <3>2. Start(d) + w.start + k = Start(d + 1) + (w.start + k - DayTicks)
      <4>1. Start(d + 1) = Start(d) + DayTicks
        BY <2>1, NextStart
      <4> QED BY <2>0, <4>1
    <3> QED BY <2>1, <2>3, <3>1, <3>2, PlaceOfTime
  <2> QED BY <2>2, <2>3
<1>6. w.start # w.end =>
        ((w.end - w.start) % DayTicks =
            IF w.start < w.end THEN w.end - w.start ELSE w.end - w.start + DayTicks)
  BY <1>1, LengthOfWindow
<1>7. \A d \in w.days, t \in Ticks :
          Start(day) + time = Start(d) + t <=> day = d /\ time = t
  BY <1>1, <1>2, SamePlace
<1>8. \A d \in w.days, t \in Ticks :
          Start(day) + time = Start((d + 1) % WeekDays) + t
              <=> d = (day - 1) % WeekDays /\ time = t
  <2>1. \A d \in w.days : /\ (d + 1) % WeekDays \in Int
                          /\ (d + 1) % WeekDays = day <=> d = (day - 1) % WeekDays
    BY <1>1, <1>2, DayAfter
  <2>2. day \in Int
    BY <1>1, <1>2
  <2> QED BY <1>1, <2>1, <2>2, SamePlace
<1> HIDE DEF day, time
<1>9. CASE w.start = w.end
  BY <1>1, <1>3, <1>4, <1>7, <1>9
<1>10. CASE w.start < w.end
  <2>1. w.start # w.end /\ Span = {t \in Ticks : t < w.end - w.start}
    BY <1>1, <1>2, <1>6, <1>10
  <2> HIDE DEF Span
  <2>2. \A k \in Span : w.start + k \in Ticks
    BY <1>1, <1>2, <2>1
  <2>3. l % WeekTicks \in Schedule!Covered(w) <=>
            \E d \in w.days, k \in Span : day = d /\ time = w.start + k
    BY <1>4, <1>5, <1>7, <2>1, <2>2
  <2>4. (\E k \in Span : time = w.start + k) <=> w.start <= time /\ time < w.end
    <3>1. ASSUME w.start <= time, time < w.end
          PROVE  time - w.start \in Span /\ time = w.start + (time - w.start)
      BY <1>1, <1>2, <1>10, <2>1, <3>1
    <3>2. ASSUME NEW k \in Span, time = w.start + k
          PROVE  w.start <= time /\ time < w.end
      BY <1>1, <1>2, <1>10, <2>1, <3>2
    <3> QED BY <3>1, <3>2
  <2>5. Active(w, l) <=> day \in w.days /\ w.start <= time /\ time < w.end
    BY <1>1, <1>2, <1>3, <1>10
  <2> QED BY <2>3, <2>4, <2>5
<1>11. CASE w.end < w.start
  <2>1. w.start # w.end /\ Span = {t \in Ticks : t < w.end - w.start + DayTicks}
    BY <1>1, <1>2, <1>6, <1>11
  <2> HIDE DEF Span
  <2>2. l % WeekTicks \in Schedule!Covered(w) <=>
            \E d \in w.days, k \in Span :
                IF w.start + k \in Ticks
                THEN day = d /\ time = w.start + k
                ELSE d = (day - 1) % WeekDays /\ time = w.start + k - DayTicks
    <3>1. \A d \in w.days, k \in Span :
              Start(day) + time = (Start(d) + w.start + k) % WeekTicks <=>
                IF w.start + k \in Ticks
                THEN day = d /\ time = w.start + k
                ELSE d = (day - 1) % WeekDays /\ time = w.start + k - DayTicks
      <4> SUFFICES ASSUME NEW d \in w.days, NEW k \in Span
                   PROVE  Start(day) + time = (Start(d) + w.start + k) % WeekTicks <=>
                            IF w.start + k \in Ticks
                            THEN day = d /\ time = w.start + k
                            ELSE d = (day - 1) % WeekDays /\ time = w.start + k - DayTicks
        OBVIOUS
      <4>1. CASE w.start + k \in Ticks
        BY <1>5, <1>7, <4>1
      <4>2. CASE w.start + k \notin Ticks
        BY <1>5, <1>8, <4>2
      <4> QED BY <4>1, <4>2
    <3> QED BY <1>4, <2>1, <3>1
  <2>3. (\E k \in Span : w.start + k \in Ticks /\ time = w.start + k) <=> time >= w.start
    <3>1. ASSUME w.start <= time
          PROVE  time - w.start \in Span /\ time = w.start + (time - w.start)
      BY <1>1, <1>2, <1>11, <2>1, <3>1
    <3>2. ASSUME NEW k \in Span, time = w.start + k
          PROVE  w.start <= time
      BY <1>1, <1>2, <1>11, <2>1, <3>2
    <3> QED BY <1>1, <3>1, <3>2
  <2>4. (\E k \in Span : w.start + k \notin Ticks /\ time = w.start + k - DayTicks)
            <=> time < w.end
    <3>1. ASSUME time < w.end
          PROVE  /\ time + DayTicks - w.start \in Span
                 /\ w.start + (time + DayTicks - w.start) \notin Ticks
                 /\ time = w.start + (time + DayTicks - w.start) - DayTicks
      BY <1>1, <1>2, <1>11, <2>1, <3>1
    <3>2. ASSUME NEW k \in Span, time = w.start + k - DayTicks
          PROVE  time < w.end
      BY <1>1, <1>2, <1>11, <2>1, <3>2
    <3> QED BY <3>1, <3>2
  <2>5. Active(w, l) <=> \/ day \in w.days /\ time >= w.start
                         \/ (day - 1) % WeekDays \in w.days /\ time < w.end
    BY <1>1, <1>2, <1>3, <1>11
  <2> QED BY <2>2, <2>3, <2>4, <2>5
<1> QED BY <1>1, <1>2, <1>9, <1>10, <1>11

-----------------------------------------------------------------------------
(* Schedules: when a schedule may change.                                  *)

ScheduleOK(s) ==
    /\ s.window \in Schedule!Windows /\ s.windows \subseteq Schedule!Windows

\* Whether a schedule is active at a local time.
ActiveAt(s, l) ==
    \/ ~s.enabled
    \/ /\ s.valid /\ s.window.days # {}
       /\ \E w \in s.windows \cup {s.window} : Active(w, l)

LocalAt(z, u) == Schedule!Local(z, u)

LEMMA IsActiveAt ==
    ASSUME NEW s, NEW z, NEW u
    PROVE  Schedule!IsActive(s, z, u) <=> ActiveAt(s, LocalAt(z, u))
BY DEF Schedule!IsActive, ActiveAt, Active, LocalAt

LEMMA PromisedAt ==
    ASSUME NEW s, ScheduleOK(s), NEW z, NEW u, LocalAt(z, u) \in Int
    PROVE  Schedule!Promised(s, z, u) <=> ActiveAt(s, LocalAt(z, u))
<1> DEFINE l == LocalAt(z, u)
<1>1. \A w \in s.windows \cup {s.window} :
          Active(w, l) <=> l % WeekTicks \in Schedule!Covered(w)
  BY WindowAsDocumented DEF ScheduleOK
<1> QED BY <1>1 DEF Schedule!Promised, ActiveAt, LocalAt, WeekTicks

\* A week later everything is as it was.
LEMMA Weekly ==
    ASSUME NEW s, ScheduleOK(s), NEW l \in Int, NEW m \in Int, m = l + WeekTicks
    PROVE  ActiveAt(s, l) <=> ActiveAt(s, m)
<1>1. m % WeekTicks = l % WeekTicks
  <2>1. WeekTicks \in Nat /\ WeekTicks > 0
    BY WeekLength, DayLength
  <2>2. /\ l % WeekTicks \in 0..(WeekTicks - 1) /\ l \div WeekTicks \in Int
        /\ l = (l \div WeekTicks) * WeekTicks + (l % WeekTicks)
    BY <2>1, Quotients
  <2>3. PICK q \in Int, r \in 0..(WeekTicks - 1) :
            l = q * WeekTicks + r /\ r = l % WeekTicks
    BY <2>2
  <2>4. m = (q + 1) * WeekTicks + r /\ q + 1 \in Int
    BY <2>1, <2>3
  <2>5. \A p \in Int, t \in 0..(WeekTicks - 1) :
            m = p * WeekTicks + t => t = m % WeekTicks
    BY <2>1, Quotients
  <2> QED BY <2>3, <2>4, <2>5
<1>2. \A w \in s.windows \cup {s.window} : Active(w, l) <=> Active(w, m)
  BY <1>1, WindowAsDocumented DEF ScheduleOK
<1> QED BY <1>2 DEF ActiveAt

\* The tick before, on the same day.
LEMMA TickBefore ==
    ASSUME NEW l \in Int, Clock(l) # 0
    PROVE  /\ Date(l - 1) = Date(l) /\ Clock(l - 1) = Clock(l) - 1
           /\ Schedule!Weekday(l - 1) = Schedule!Weekday(l)
<1>1. Date(l) \in Int /\ Clock(l) \in Ticks /\ l = Start(Date(l)) + Clock(l)
  BY DateAndClock
<1>2. Clock(l) - 1 \in Ticks
  BY <1>1, DayLength DEF Ticks, Schedule!Ticks
<1>3. l - 1 = Start(Date(l)) + (Clock(l) - 1)
  BY <1>1, StartIsInteger DEF Ticks, Schedule!Ticks
<1>4. Date(l - 1) = Date(l) /\ Clock(l - 1) = Clock(l) - 1
  BY <1>1, <1>2, <1>3, DateIsOne
<1> QED BY <1>4 DEF Schedule!Weekday, Date

\* Between boundaries nothing changes.
LEMMA QuietTime ==
    ASSUME NEW s, ScheduleOK(s), NEW l \in Int,
           Clock(l) \notin Schedule!Boundaries(s)
    PROVE  ActiveAt(s, l) <=> ActiveAt(s, l - 1)
<1>1. Clock(l) \in Ticks /\ 0 \in Ticks /\ 0 % HourTicks = 0
  BY DateAndClock, DayLength DEF Ticks, Schedule!Ticks
<1>2. /\ Clock(l) # 0
      /\ \A w \in s.windows \cup {s.window} : Clock(l) # w.start /\ Clock(l) # w.end
  BY <1>1 DEF Schedule!Boundaries, Schedule!BoundariesOnly, Ticks
<1>3. /\ Clock(l - 1) = Clock(l) - 1
      /\ Schedule!Weekday(l - 1) = Schedule!Weekday(l)
  BY <1>2, TickBefore
<1>4. ASSUME NEW w \in s.windows \cup {s.window}
      PROVE  Active(w, l) <=> Active(w, l - 1)
  <2>1. w.start \in Int /\ w.end \in Int /\ Clock(l) \in Int
    BY <1>1, DayLength DEF ScheduleOK, Schedule!Windows, Ticks, Schedule!Ticks
  <2>2. w.start <= Clock(l) <=> w.start <= Clock(l) - 1
    BY <1>2, <2>1
  <2>3. Clock(l) < w.end <=> Clock(l) - 1 < w.end
    BY <1>2, <2>1
  <2>4. Clock(l) >= w.start <=> Clock(l) - 1 >= w.start
    BY <1>2, <2>1
  <2> QED BY <1>3, <2>2, <2>3, <2>4
          DEF Active, Schedule!WindowIsActive, Schedule!AfterMidnight, Clock
<1> QED BY <1>4 DEF ActiveAt

-----------------------------------------------------------------------------
(* Schedules: local time.                                                  *)

LEMMA ZoneFacts ==
    ASSUME NEW z \in Zones
    PROVE  /\ z.at \in Int /\ z.before \in Int /\ z.after \in Int
           /\ z.after - z.before <= DayTicks /\ z.before - z.after <= DayTicks
           /\ Date(z.at + z.before - 1) <= Date(z.at + z.after)
BY ScheduleConstants DEF Date

LEMMA LocalIs ==
    ASSUME NEW z \in Zones, NEW u \in Int
    PROVE  /\ LocalAt(z, u) \in Int
           /\ u < z.at => LocalAt(z, u) = u + z.before
           /\ u >= z.at => LocalAt(z, u) = u + z.after
BY ZoneFacts DEF LocalAt, Schedule!Local, Schedule!Offset

\* A clock that changes shows a full hour.
LEMMA ChangeOnTheHour ==
    ASSUME NEW z \in Zones
    PROVE  Clock(z.at + z.after) % HourTicks = 0
<1> DEFINE l == z.at + z.after
<1>1. /\ z.at \in Int /\ z.before \in Int /\ z.after \in Int
      /\ (z.at + z.before) % HourTicks = 0 /\ (z.after - z.before) % HourTicks = 0
      /\ DayTicks % HourTicks = 0
  BY ScheduleConstants
<1>2. HourTicks \in Nat /\ HourTicks > 0 /\ DayTicks \in Nat
  BY DayLength
<1>3. \A n \in Int : n % HourTicks = 0 => \E q \in Int : n = q * HourTicks
  <2> SUFFICES ASSUME NEW n \in Int, n % HourTicks = 0
               PROVE  \E q \in Int : n = q * HourTicks
    OBVIOUS
  <2>1. /\ n \div HourTicks \in Int
        /\ n = (n \div HourTicks) * HourTicks + (n % HourTicks)
    BY <1>2, Quotients
  <2>2. PICK q \in Int : n = q * HourTicks + 0
    BY <2>1
  <2>3. q * HourTicks \in Int
    BY <1>2
  <2> QED BY <2>2, <2>3
<1>4. PICK a \in Int : z.at + z.before = a * HourTicks
  BY <1>1, <1>3
<1>5. PICK b \in Int : z.after - z.before = b * HourTicks
  BY <1>1, <1>3
<1>6. PICK c \in Int : DayTicks = c * HourTicks
  <2>1. DayTicks \in Int /\ DayTicks % HourTicks = 0
    BY <1>1, <1>2
  <2> QED BY <2>1, <1>3
<1>7. PICK d \in Int : Start(Date(l)) = d * HourTicks
  <2>1. Date(l) \in Int /\ Start(Date(l)) = Date(l) * (c * HourTicks)
    BY <1>1, <1>6, DateAndClock DEF Start
  <2>2. \A m, n, o \in Int : m * (n * o) = (m * n) * o /\ m * n \in Int
    OBVIOUS
  <2>3. HourTicks \in Int
    BY <1>2
  <2>4. Start(Date(l)) = (Date(l) * c) * HourTicks /\ Date(l) * c \in Int
    BY <2>1, <2>2, <2>3
  <2> QED BY <2>4
<1>8. l \in Int /\ Clock(l) \in Ticks /\ l = Start(Date(l)) + Clock(l)
  BY <1>1, DateAndClock
<1>9. l = a * HourTicks + b * HourTicks
  <2>1. a * HourTicks \in Int /\ b * HourTicks \in Int
    BY <1>2
  <2> QED BY <1>1, <1>4, <1>5, <2>1
<1> HIDE DEF l
<1>10. Clock(l) = (a + b - d) * HourTicks + 0
  <2>1. Clock(l) = a * HourTicks + b * HourTicks - d * HourTicks
    <3>1. a * HourTicks \in Int /\ b * HourTicks \in Int /\ d * HourTicks \in Int
          /\ Clock(l) \in Int
      BY <1>2, <1>8, DayLength DEF Ticks, Schedule!Ticks
    <3> QED BY <1>7, <1>8, <1>9, <3>1
  <2> QED BY <1>2, <2>1
<1>11. Clock(l) % HourTicks = 0
  <2>1. Clock(l) \in Int /\ a + b - d \in Int /\ 0 \in 0..(HourTicks - 1)
    BY <1>2, <1>8, DayLength DEF Ticks, Schedule!Ticks
  <2>2. \A p \in Int, r \in 0..(HourTicks - 1) :
            Clock(l) = p * HourTicks + r => r = Clock(l) % HourTicks
    BY <1>2, <2>1, Quotients
  <2> QED BY <1>10, <2>1, <2>2
<1> QED BY <1>11 DEF l

\* The date never goes back.
LEMMA DatesGoOn ==
    ASSUME NEW z \in Zones, NEW u \in Int, NEW v \in Int, u <= v
    PROVE  Date(LocalAt(z, u)) <= Date(LocalAt(z, v))
<1>1. /\ z.at \in Int /\ z.before \in Int /\ z.after \in Int
      /\ Date(z.at + z.before - 1) <= Date(z.at + z.after)
  BY ZoneFacts
<1>2. \A l, m \in Int : l <= m => Date(l) <= Date(m)
  <2> SUFFICES ASSUME NEW l \in Int, NEW m \in Int, l <= m
               PROVE  Date(l) <= Date(m)
    OBVIOUS
  <2>1. Date(m) \in Int /\ Start(Date(m) + 1) \in Int
    BY DateAndClock, StartIsInteger
  <2>2. m < Start(Date(m) + 1)
    BY <2>1, DateIsRange
  <2>3. l < Start(Date(m) + 1)
    BY <2>1, <2>2
  <2> QED BY <2>1, <2>3, DateIsRange
<1>3. \A l \in Int : Date(l) \in Int
  BY DateAndClock
<1>4. CASE v < z.at \/ u >= z.at
  <2>1. LocalAt(z, u) <= LocalAt(z, v) /\ LocalAt(z, u) \in Int /\ LocalAt(z, v) \in Int
    BY <1>1, <1>4, LocalIs
  <2> QED BY <1>2, <2>1
<1>5. CASE u < z.at /\ v >= z.at
  <2>1. /\ LocalAt(z, u) = u + z.before /\ LocalAt(z, v) = v + z.after
        /\ LocalAt(z, u) \in Int /\ LocalAt(z, v) \in Int
    BY <1>5, LocalIs
  <2>2. /\ u + z.before <= z.at + z.before - 1 /\ z.at + z.after <= v + z.after
        /\ u + z.before \in Int /\ z.at + z.before - 1 \in Int
        /\ z.at + z.after \in Int /\ v + z.after \in Int
    BY <1>1, <1>5
  <2>3. /\ Date(u + z.before) <= Date(z.at + z.before - 1)
        /\ Date(z.at + z.after) <= Date(v + z.after)
    BY <1>2, <2>2
  <2> QED BY <1>1, <1>3, <2>1, <2>2, <2>3
<1> QED BY <1>1, <1>4, <1>5

-----------------------------------------------------------------------------
(* Schedules: the instants that are tried.                                 *)

ChangesAt(s, z, u) == ~(ActiveAt(s, LocalAt(z, u - 1)) <=> ActiveAt(s, LocalAt(z, u)))
LastDate(z, from) == Date(LocalAt(z, from)) + WeekDays + 1

LEMMA ChangeAtBoundary ==
    ASSUME NEW s, ScheduleOK(s), NEW z \in Zones, NEW u \in Int, ChangesAt(s, z, u)
    PROVE  Clock(LocalAt(z, u)) \in Schedule!Boundaries(s)
<1>1. z.at \in Int /\ z.before \in Int /\ z.after \in Int
  BY ZoneFacts
<1>2. CASE u = z.at
  <2>1. LocalAt(z, u) = z.at + z.after /\ z.at + z.after \in Int
    BY <1>1, <1>2, LocalIs
  <2>2. Clock(z.at + z.after) % HourTicks = 0 /\ Clock(z.at + z.after) \in Ticks
    BY <2>1, ChangeOnTheHour, DateAndClock
  <2> QED BY <2>1, <2>2 DEF Schedule!Boundaries, Ticks
<1>3. CASE u # z.at
  <2>1. LocalAt(z, u - 1) = LocalAt(z, u) - 1 /\ LocalAt(z, u) \in Int
    <3>1. u - 1 \in Int
      OBVIOUS
    <3>2. /\ LocalAt(z, u) \in Int
          /\ u < z.at => LocalAt(z, u) = u + z.before
          /\ u >= z.at => LocalAt(z, u) = u + z.after
      BY LocalIs
    <3>3. /\ u - 1 < z.at => LocalAt(z, u - 1) = u - 1 + z.before
          /\ u - 1 >= z.at => LocalAt(z, u - 1) = u - 1 + z.after
      BY <3>1, LocalIs
    <3> QED BY <1>1, <1>3, <3>2, <3>3
  <2> QED BY <2>1, QuietTime DEF ChangesAt
<1> QED BY <1>2, <1>3

\* Every instant is found by its local time, one way or the other.
LEMMA InstantOfLocal ==
    ASSUME NEW z \in Zones, NEW u \in Int
    PROVE  \E fold \in Schedule!Folds : Schedule!Instant(z, LocalAt(z, u), fold) = u
<1>1. z.at \in Int /\ z.before \in Int /\ z.after \in Int
  BY ZoneFacts
<1>2. CASE u < z.at
  <2>1. LocalAt(z, u) = u + z.before
    BY <1>2, LocalIs
  <2>2. Schedule!Instant(z, u + z.before, 0) = u
    BY <1>1, <1>2 DEF Schedule!Instant
  <2> QED BY <2>1, <2>2 DEF Schedule!Folds
<1>3. CASE u >= z.at
  <2>1. LocalAt(z, u) = u + z.after
    BY <1>3, LocalIs
  <2>2. Schedule!Instant(z, u + z.after, 1) = u
    BY <1>1, <1>3 DEF Schedule!Instant
  <2> QED BY <2>1, <2>2 DEF Schedule!Folds
<1> QED BY <1>1, <1>2, <1>3

\* A change on one of the days tried is found.
LEMMA ChangeIsTried ==
    ASSUME NEW s, ScheduleOK(s), NEW z \in Zones, NEW from \in Int,
           NEW u \in Int, u > from, ChangesAt(s, z, u),
           Date(LocalAt(z, u)) <= LastDate(z, from)
    PROVE  u \in Schedule!Candidates(s, z, from)
<1> DEFINE l == LocalAt(z, u)
           today == Date(LocalAt(z, from))
<1>1. l \in Int /\ Date(l) \in Int /\ l = Start(Date(l)) + Clock(l)
  BY LocalIs, DateAndClock
<1>2. LocalAt(z, from) \in Int /\ today \in Int
  BY LocalIs, DateAndClock
<1>3. today <= Date(l)
  BY DatesGoOn
<1>4. Date(l) - today \in 0..(WeekDays + 1)
  BY <1>1, <1>2, <1>3, DayLength DEF LastDate
<1>5. l = (today + (Date(l) - today)) * DayTicks + Clock(l)
  <2>1. today + (Date(l) - today) = Date(l)
    BY <1>1, <1>2
  <2> QED BY <1>1, <2>1 DEF Start
<1>6. Clock(l) \in Schedule!Boundaries(s)
  BY ChangeAtBoundary
<1>7. PICK fold \in Schedule!Folds : Schedule!Instant(z, l, fold) = u
  BY InstantOfLocal
<1>8. today = Schedule!Local(z, from) \div DayTicks
  BY DEF Date, LocalAt
<1> HIDE DEF l, today
<1>9. u = Schedule!Instant(z, (today + (Date(l) - today)) * DayTicks + Clock(l), fold)
  BY <1>5, <1>7
<1> QED BY <1>4, <1>6, <1>8, <1>9 DEF Schedule!Candidates

\* What is tried: an instant of a day tried, or, where the clock is put forward,
\* one that a skipped time of such a day stands for.
LEMMA TriedInstants ==
    ASSUME NEW s, ScheduleOK(s), NEW z \in Zones, NEW from \in Int,
           NEW u \in Schedule!Candidates(s, z, from)
    PROVE  /\ u \in Int /\ from < u /\ u <= from + 2 * WeekTicks
           /\ \/ Date(LocalAt(z, u)) <= LastDate(z, from)
              \/ /\ z.before < z.after
                 /\ \E l \in Int : /\ u = l - z.before
                                   /\ z.at + z.before <= l /\ l < z.at + z.after
                                   /\ Date(l) <= LastDate(z, from)
<1> DEFINE today == Date(LocalAt(z, from))
<1>1. /\ LocalAt(z, from) \in Int /\ today \in Int
      /\ z.at \in Int /\ z.before \in Int /\ z.after \in Int
      /\ z.after - z.before <= DayTicks /\ z.before - z.after <= DayTicks
  BY LocalIs, DateAndClock, ZoneFacts
<1>2. today = Schedule!Local(z, from) \div DayTicks
  BY DEF Date, LocalAt
<1>3. /\ DayTicks \in Nat /\ WeekDays \in Nat /\ WeekDays >= 3
      /\ WeekTicks \in Nat /\ WeekTicks >= 3 * DayTicks
      /\ Schedule!Boundaries(s) \subseteq 0..(DayTicks - 1)
  BY DayLength, WeekLength DEF ScheduleOK, Schedule!Windows, Schedule!Boundaries,
     Schedule!BoundariesOnly, Schedule!Ticks
<1> HIDE DEF today
<1>4. PICK ahead \in 0..(WeekDays + 1), t \in Schedule!Boundaries(s),
           fold \in Schedule!Folds :
          u = Schedule!Instant(z, (today + ahead) * DayTicks + t, fold)
  BY <1>2 DEF Schedule!Candidates
<1> DEFINE l == Start(today + ahead) + t
<1>5. /\ today + ahead \in Int /\ t \in Ticks /\ t \in 0..(DayTicks - 1)
      /\ Start(today + ahead) \in Int /\ l \in Int
      /\ Date(l) = today + ahead /\ Date(l) <= LastDate(z, from)
  <2>1. today + ahead \in Int /\ t \in Ticks /\ t \in 0..(DayTicks - 1)
    BY <1>1, <1>3, <1>4 DEF Ticks, Schedule!Ticks
  <2>2. Start(today + ahead) \in Int /\ Date(l) = today + ahead
    BY <2>1, StartIsInteger, DateIsOne
  <2>3. today + ahead <= today + WeekDays + 1
    BY <1>1, <1>3
  <2> QED BY <2>1, <2>2, <2>3 DEF LastDate, today
<1>6. u = Schedule!Instant(z, l, fold)
  BY <1>4 DEF Start
<1> HIDE DEF l
<1>7. u = l - z.before \/ u = l - z.after
  BY <1>6 DEF Schedule!Instant
<1>8. u > from
  BY DEF Schedule!Candidates
<1>9. l < LocalAt(z, from) + 2 * WeekTicks - DayTicks
  <2>1. l < Start(today + (WeekDays + 2))
    <3>1. today + WeekDays + 1 \in Int /\ Date(l) <= today + WeekDays + 1
      BY <1>1, <1>3, <1>5
    <3>2. l < Start(today + WeekDays + 1 + 1)
      BY <1>5, <3>1, DateIsRange
    <3>3. today + WeekDays + 1 + 1 = today + (WeekDays + 2)
      BY <1>1, <1>3
    <3> QED BY <3>2, <3>3
  <2>2. Start(today + (WeekDays + 2)) = Start(today) + WeekTicks + 2 * DayTicks
    <3>1. Start(today + WeekDays) = Start(today) + WeekTicks
      BY <1>1, WeekLength
    <3>2. /\ Start(today + WeekDays + 1) = Start(today + WeekDays) + DayTicks
          /\ Start(today + WeekDays + 1 + 1) = Start(today + WeekDays + 1) + DayTicks
      BY <1>1, <1>3, NextStart
    <3>3. today + WeekDays + 1 + 1 = today + (WeekDays + 2)
      BY <1>1, <1>3
    <3>4. Start(today) \in Int
      BY <1>1, StartIsInteger
    <3> QED BY <1>3, <3>1, <3>2, <3>3, <3>4
  <2>3. Start(today) <= LocalAt(z, from)
    BY <1>1, DateIsRange DEF today
  <2>4. Start(today) \in Int
    BY <1>1, StartIsInteger
  <2> QED BY <1>1, <1>3, <1>5, <2>1, <2>2, <2>3, <2>4
<1>10. u \in Int /\ u <= from + 2 * WeekTicks
  <2>1. LocalAt(z, from) = from + z.before \/ LocalAt(z, from) = from + z.after
    BY <1>1, LocalIs
  <2> QED BY <1>1, <1>3, <1>5, <1>7, <1>9, <2>1
<1>11. \/ LocalAt(z, u) <= l
       \/ /\ z.before < z.after /\ u = l - z.before
          /\ z.at + z.before <= l /\ l < z.at + z.after
  <2>1. CASE z.before < z.after
    <3>1. u = l - (IF l < z.at + z.before \/ (l < z.at + z.after /\ fold = 0)
                   THEN z.before ELSE z.after)
      BY <1>6, <2>1 DEF Schedule!Instant
    <3> QED BY <1>1, <1>5, <1>10, <2>1, <3>1, LocalIs
  <2>2. CASE z.after <= z.before
    <3>1. u = l - (IF l < z.at + z.after \/ (l < z.at + z.before /\ fold = 0)
                   THEN z.before ELSE z.after)
      BY <1>1, <1>6, <2>2 DEF Schedule!Instant
    <3> QED BY <1>1, <1>5, <1>10, <2>2, <3>1, LocalIs
  <2> QED BY <1>1, <2>1, <2>2
<1>12. LocalAt(z, u) <= l => Date(LocalAt(z, u)) <= LastDate(z, from)
  <2>1. LastDate(z, from) \in Int /\ LocalAt(z, u) \in Int
    BY <1>1, <1>3, <1>10, LocalIs DEF LastDate, today
  <2>2. Start(LastDate(z, from) + 1) \in Int
    BY <2>1, StartIsInteger
  <2> QED BY <1>5, <2>1, <2>2, DateIsRange
<1> QED BY <1>5, <1>8, <1>10, <1>11, <1>12

\* The days tried are a week and two or three days.
LEMMA DaysTried ==
    ASSUME NEW z \in Zones, NEW from \in Int, NEW l \in Int
    PROVE  /\ Date(l) <= LastDate(z, from) =>
                  l < LocalAt(z, from) + WeekTicks + 2 * DayTicks
           /\ l <= LocalAt(z, from) + WeekTicks + DayTicks =>
                  Date(l) <= LastDate(z, from)
<1> DEFINE today == Date(LocalAt(z, from))
<1>1. /\ LocalAt(z, from) \in Int /\ today \in Int /\ WeekDays \in Nat
      /\ DayTicks \in Nat /\ WeekTicks \in Nat
  BY LocalIs, DateAndClock, DayLength, WeekLength
<1>2. LastDate(z, from) = today + WeekDays + 1
  BY DEF LastDate
<1> HIDE DEF today
<1>3. /\ Start(today + WeekDays + 1 + 1) = Start(today) + WeekTicks + 2 * DayTicks
      /\ Start(today) \in Int /\ Start(today + 1) = Start(today) + DayTicks
  <2>1. Start(today + WeekDays) = Start(today) + WeekTicks
    BY <1>1, WeekLength
  <2>2. /\ Start(today + WeekDays + 1) = Start(today + WeekDays) + DayTicks
        /\ Start(today + WeekDays + 1 + 1) = Start(today + WeekDays + 1) + DayTicks
        /\ Start(today + 1) = Start(today) + DayTicks
    BY <1>1, NextStart
  <2>3. Start(today) \in Int
    BY <1>1, StartIsInteger
  <2> QED BY <1>1, <2>1, <2>2, <2>3
<1>4. Start(today) <= LocalAt(z, from) /\ LocalAt(z, from) < Start(today + 1)
  BY <1>1, DateIsRange DEF today
<1>5. today + WeekDays + 1 \in Int
  BY <1>1
<1>6. Date(l) <= today + WeekDays + 1 <=> l < Start(today + WeekDays + 1 + 1)
  BY <1>5, DateIsRange
<1> QED BY <1>1, <1>2, <1>3, <1>4, <1>6

-----------------------------------------------------------------------------
(* Schedules: nothing is missed.                                           *)

\* Where no day tried shows a change, the schedule stays as it is on them.
LEMMA QuietDays ==
    ASSUME NEW s, ScheduleOK(s), NEW z \in Zones, NEW from \in Nat,
           \A u \in Nat : u > from /\ Date(LocalAt(z, u)) <= LastDate(z, from)
                              => ~ChangesAt(s, z, u)
    PROVE  \A u \in Nat : u >= from /\ Date(LocalAt(z, u)) <= LastDate(z, from)
               => (ActiveAt(s, LocalAt(z, u)) <=> ActiveAt(s, LocalAt(z, from)))
<1> DEFINE Odd == {u \in Nat : /\ u >= from /\ Date(LocalAt(z, u)) <= LastDate(z, from)
                               /\ ~(ActiveAt(s, LocalAt(z, u)) <=> ActiveAt(s, LocalAt(z, from)))}
<1>1. ASSUME Odd # {}
      PROVE  FALSE
  <2>1. PICK u \in Odd : \A v \in Odd : u <= v
    BY <1>1, LeastNatural
  <2>2. u \in Nat /\ u > from /\ u - 1 \in Nat /\ u - 1 >= from /\ ~(u <= u - 1)
    BY <2>1
  <2>3. Date(LocalAt(z, u - 1)) <= LastDate(z, from)
    <3>1. Date(LocalAt(z, u - 1)) <= Date(LocalAt(z, u))
      BY <2>2, DatesGoOn
    <3>2. /\ Date(LocalAt(z, u - 1)) \in Int /\ Date(LocalAt(z, u)) \in Int
          /\ LastDate(z, from) \in Int
      <4>1. /\ LocalAt(z, u - 1) \in Int /\ LocalAt(z, u) \in Int
            /\ LocalAt(z, from) \in Int
        BY <2>2, LocalIs
      <4> QED BY <4>1, DateAndClock, DayLength DEF LastDate
    <3> QED BY <2>1, <3>1, <3>2
  <2>4. ActiveAt(s, LocalAt(z, u - 1)) <=> ActiveAt(s, LocalAt(z, from))
    BY <2>1, <2>2, <2>3
  <2>5. ChangesAt(s, z, u)
    BY <2>1, <2>4 DEF ChangesAt
  <2> QED BY <2>1, <2>2, <2>5
<1> QED BY <1>1

\* Whether the clock is put forward on one of the days tried.
Skips(z, from) ==
    /\ z.before < z.after
    /\ from < z.at /\ z.at <= from + 2 * WeekTicks
    /\ Date(LocalAt(z, z.at)) <= LastDate(z, from)

\* Times of the days tried come, other than those that are skipped.
LEMMA TimesCome ==
    ASSUME NEW z \in Zones, NEW from \in Nat, ~Skips(z, from),
           NEW l \in Int, LocalAt(z, from) <= l, Date(l) <= LastDate(z, from),
           z.before < z.after /\ from < z.at /\ z.at <= from + 2 * WeekTicks
               => l < z.at + z.before
    PROVE  \E u \in Nat : u >= from /\ LocalAt(z, u) = l
<1>1. /\ z.at \in Int /\ z.before \in Int /\ z.after \in Int
      /\ z.after - z.before <= DayTicks /\ LocalAt(z, from) \in Int
      /\ from < z.at => LocalAt(z, from) = from + z.before
      /\ from >= z.at => LocalAt(z, from) = from + z.after
  BY ZoneFacts, LocalIs
<1>2. \A u \in Nat : /\ u < z.at => LocalAt(z, u) = u + z.before
                     /\ u >= z.at => LocalAt(z, u) = u + z.after
  BY LocalIs
<1>3. CASE from >= z.at
  <2>1. l - z.after \in Nat /\ l - z.after >= from /\ l - z.after >= z.at
    BY <1>1, <1>3
  <2>2. LocalAt(z, l - z.after) = l - z.after + z.after
    BY <1>2, <2>1
  <2> QED BY <1>1, <2>1, <2>2
<1>4. CASE from < z.at /\ l - z.before < z.at
  <2>1. l - z.before \in Nat /\ l - z.before >= from
    BY <1>1, <1>4
  <2>2. LocalAt(z, l - z.before) = l - z.before + z.before
    BY <1>2, <1>4, <2>1
  <2> QED BY <1>1, <2>1, <2>2
<1>5. CASE from < z.at /\ l - z.before >= z.at /\ z.after <= z.before
  <2>1. l - z.after \in Nat /\ l - z.after >= from /\ l - z.after >= z.at
    BY <1>1, <1>5
  <2>2. LocalAt(z, l - z.after) = l - z.after + z.after
    BY <1>2, <2>1
  <2> QED BY <1>1, <2>1, <2>2
<1>6. CASE from < z.at /\ l - z.before >= z.at /\ z.before < z.after
  <2>1. z.at > from + 2 * WeekTicks
    BY <1>1, <1>6, WeekLength
  <2>2. l < LocalAt(z, from) + 2 * WeekTicks
    BY <1>1, DayLength, WeekLength, DaysTried
  <2> QED BY <1>1, <1>6, <2>1, <2>2, WeekLength
<1> QED BY <1>1, <1>3, <1>4, <1>5, <1>6

\* If no day tried shows a change and no clock is put forward on one, then nothing
\* changes in two weeks: every time of the week has come, but for one that is
\* skipped later on, which comes the week before.
LEMMA NothingMissed ==
    ASSUME NEW s, ScheduleOK(s), NEW z \in Zones, NEW from \in Nat, ~Skips(z, from),
           \A u \in Nat : u > from /\ Date(LocalAt(z, u)) <= LastDate(z, from)
                              => ~ChangesAt(s, z, u)
    PROVE  \A u \in Nat : from < u /\ u <= from + 2 * WeekTicks => ~ChangesAt(s, z, u)
<1> DEFINE Here == ActiveAt(s, LocalAt(z, from))
<1>1. /\ z.at \in Int /\ z.before \in Int /\ z.after \in Int
      /\ z.after - z.before <= DayTicks /\ z.before - z.after <= DayTicks
      /\ LocalAt(z, from) \in Int
      /\ from < z.at => LocalAt(z, from) = from + z.before
      /\ from >= z.at => LocalAt(z, from) = from + z.after
  BY ZoneFacts, LocalIs
<1>2. DayTicks \in Nat /\ WeekTicks \in Nat /\ WeekTicks >= 3 * DayTicks /\ DayTicks > 0
  BY DayLength, WeekLength
<1>3. \A l \in Int : l <= LocalAt(z, from) + WeekTicks + DayTicks
                         => Date(l) <= LastDate(z, from)
  BY DaysTried
<1>4. \A u \in Nat : u >= from /\ Date(LocalAt(z, u)) <= LastDate(z, from)
                        => (ActiveAt(s, LocalAt(z, u)) <=> Here)
  BY QuietDays
<1>5. \A l \in Int :
          /\ LocalAt(z, from) <= l /\ l <= LocalAt(z, from) + WeekTicks + DayTicks
          /\ z.before < z.after /\ from < z.at /\ z.at <= from + 2 * WeekTicks
                 => l < z.at + z.before
          => (ActiveAt(s, l) <=> Here)
  <2> SUFFICES ASSUME NEW l \in Int, LocalAt(z, from) <= l,
                      l <= LocalAt(z, from) + WeekTicks + DayTicks,
                      z.before < z.after /\ from < z.at /\ z.at <= from + 2 * WeekTicks
                          => l < z.at + z.before
               PROVE  ActiveAt(s, l) <=> Here
    OBVIOUS
  <2>1. Date(l) <= LastDate(z, from)
    BY <1>3
  <2>2. PICK u \in Nat : u >= from /\ LocalAt(z, u) = l
    BY <2>1, TimesCome
  <2> QED BY <1>4, <2>1, <2>2
<1>6. ASSUME NEW u \in Nat, from <= u, u <= from + 2 * WeekTicks
      PROVE  ActiveAt(s, LocalAt(z, u)) <=> Here
  <2> DEFINE once == LocalAt(z, u) - WeekTicks
             twice == once - WeekTicks
  <2>1. /\ LocalAt(z, u) \in Int
        /\ u < z.at => LocalAt(z, u) = u + z.before
        /\ u >= z.at => LocalAt(z, u) = u + z.after
    BY LocalIs
  <2>2. /\ once \in Int /\ twice \in Int
        /\ LocalAt(z, u) = once + WeekTicks /\ once = twice + WeekTicks
    BY <1>2, <2>1
  <2>3. /\ ActiveAt(s, once) <=> ActiveAt(s, LocalAt(z, u))
        /\ ActiveAt(s, twice) <=> ActiveAt(s, once)
    BY <2>1, <2>2, Weekly
  <2>4. CASE Date(LocalAt(z, u)) <= LastDate(z, from)
    BY <1>4, <1>6, <2>4
  <2>5. CASE ~(Date(LocalAt(z, u)) <= LastDate(z, from))
    <3>1. LocalAt(z, u) > LocalAt(z, from) + WeekTicks + DayTicks
      BY <1>1, <1>2, <1>3, <2>1, <2>5
    <3>2. LocalAt(z, u) <= LocalAt(z, from) + 2 * WeekTicks + DayTicks
      BY <1>1, <1>2, <1>6, <2>1
    <3>3. LocalAt(z, from) <= once /\ once <= LocalAt(z, from) + WeekTicks + DayTicks
      BY <1>1, <1>2, <2>1, <3>1, <3>2
    <3>4. CASE z.before < z.after /\ from < z.at /\ z.at <= from + 2 * WeekTicks
                   => once < z.at + z.before
      BY <1>5, <2>2, <2>3, <3>3, <3>4
    <3>5. CASE /\ z.before < z.after /\ from < z.at /\ z.at <= from + 2 * WeekTicks
               /\ ~(once < z.at + z.before)
      <4>1. u >= z.at
        BY <1>1, <1>2, <2>1, <3>5
      <4>2. z.at + z.after > from + z.before + WeekTicks + DayTicks
        <5>1. z.at \in Nat /\ LocalAt(z, z.at) = z.at + z.after
          BY <1>1, <3>5, LocalIs
        <5>2. ~(Date(LocalAt(z, z.at)) <= LastDate(z, from))
          BY <3>5 DEF Skips
        <5> QED BY <1>1, <1>2, <1>3, <3>5, <5>1, <5>2
      <4>3. /\ LocalAt(z, from) <= twice /\ twice < z.at + z.before
            /\ twice <= LocalAt(z, from) + WeekTicks + DayTicks
        BY <1>1, <1>2, <1>6, <2>1, <3>5, <4>1, <4>2
      <4> QED BY <1>5, <2>2, <2>3, <4>3
    <3> QED BY <3>4, <3>5
  <2> QED BY <2>4, <2>5
<1>7. ASSUME NEW u \in Nat, from < u, u <= from + 2 * WeekTicks
      PROVE  ~ChangesAt(s, z, u)
  <2>1. /\ u - 1 \in Nat /\ from <= u - 1 /\ u - 1 <= from + 2 * WeekTicks
        /\ from <= u
    BY <1>2, <1>7
  <2> HIDE DEF Here
  <2>2. ActiveAt(s, LocalAt(z, u)) <=> Here
    BY <1>6, <1>7, <2>1
  <2>3. ActiveAt(s, LocalAt(z, u - 1)) <=> Here
    BY <1>6, <2>1
  <2> QED BY <2>2, <2>3 DEF ChangesAt
<1> QED BY <1>7

\* A skipped time that is tried stands for one of a day after, which comes a week
\* before.
LEMMA SkippedIsNotFirst ==
    ASSUME NEW s, ScheduleOK(s), NEW z \in Zones, NEW from \in Nat, Skips(z, from),
           NEW u \in Schedule!Candidates(s, z, from), ChangesAt(s, z, u),
           ~(Date(LocalAt(z, u)) <= LastDate(z, from))
    PROVE  \E v \in Nat : /\ from < v /\ v <= u /\ ChangesAt(s, z, v)
                          /\ Date(LocalAt(z, v)) <= LastDate(z, from)
<1>1. /\ z.at \in Int /\ z.before \in Int /\ z.after \in Int
      /\ z.after - z.before <= DayTicks /\ z.before < z.after
      /\ from < z.at /\ LocalAt(z, from) = from + z.before
      /\ LocalAt(z, z.at) = z.at + z.after
      /\ Date(LocalAt(z, z.at)) <= LastDate(z, from)
  BY ZoneFacts, LocalIs DEF Skips
<1>2. DayTicks \in Nat /\ WeekTicks \in Nat /\ WeekTicks >= 3 * DayTicks /\ DayTicks > 0
  BY DayLength, WeekLength
<1>3. /\ u \in Int /\ from < u
      /\ \E l \in Int : /\ u = l - z.before
                        /\ z.at + z.before <= l /\ l < z.at + z.after
                        /\ Date(l) <= LastDate(z, from)
  BY TriedInstants
<1>4. PICK l \in Int : /\ u = l - z.before
                       /\ z.at + z.before <= l /\ l < z.at + z.after
                       /\ Date(l) <= LastDate(z, from)
  BY <1>3
<1>5. u # z.at /\ u > z.at
  BY <1>1, <1>3, <1>4
<1>6. LocalAt(z, u) = u + z.after /\ LocalAt(z, u - 1) = u - 1 + z.after
  <2>1. u - 1 \in Int /\ u - 1 >= z.at
    BY <1>1, <1>3, <1>5
  <2> QED BY <1>1, <1>3, <1>5, <2>1, LocalIs
<1>7. /\ l < LocalAt(z, from) + WeekTicks + 2 * DayTicks
      /\ LocalAt(z, u) > LocalAt(z, from) + WeekTicks + DayTicks
  BY <1>1, <1>2, <1>3, <1>4, <1>6, DaysTried
<1> DEFINE v == u + z.after - z.before - WeekTicks
<1>8. v \in Nat /\ from < v /\ v <= u /\ v < z.at /\ v - 1 \in Int
  BY <1>1, <1>2, <1>3, <1>4, <1>5, <1>6, <1>7
<1>9. LocalAt(z, v) = v + z.before /\ LocalAt(z, v - 1) = v - 1 + z.before
  <2>1. v - 1 < z.at
    BY <1>1, <1>8
  <2> QED BY <1>8, <2>1, LocalIs
<1>10. /\ LocalAt(z, v) \in Int /\ LocalAt(z, v - 1) \in Int
       /\ LocalAt(z, u) = LocalAt(z, v) + WeekTicks
       /\ LocalAt(z, u - 1) = LocalAt(z, v - 1) + WeekTicks
       /\ LocalAt(z, u) \in Int /\ LocalAt(z, u - 1) \in Int
  BY <1>1, <1>2, <1>3, <1>6, <1>8, <1>9
<1>11. ChangesAt(s, z, v)
  <2>1. ActiveAt(s, LocalAt(z, v)) <=> ActiveAt(s, LocalAt(z, u))
    BY <1>10, Weekly
  <2>2. ActiveAt(s, LocalAt(z, v - 1)) <=> ActiveAt(s, LocalAt(z, u - 1))
    BY <1>10, Weekly
  <2> QED BY <2>1, <2>2 DEF ChangesAt
<1>12. Date(LocalAt(z, v)) <= LastDate(z, from)
  <2>1. LocalAt(z, v) <= LocalAt(z, from) + WeekTicks + DayTicks
    BY <1>1, <1>2, <1>3, <1>4, <1>6, <1>7, <1>9, <1>10
  <2> QED BY <1>10, <2>1, DaysTried
<1> QED BY <1>8, <1>11, <1>12

LEMMA EarliestAgree ==
    ASSUME NEW A \in SUBSET Nat, NEW B \in SUBSET Nat,
           \A a \in A : \E b \in B : b <= a,
           \A b \in B : \E a \in A : a <= b
    PROVE  Schedule!Earliest(A) = Schedule!Earliest(B)
<1>1. CASE A = {}
  <2>1. B = {}
    BY <1>1
  <2> QED BY <1>1, <2>1
<1>2. CASE A # {}
  <2>1. B # {}
    BY <1>2
  <2> DEFINE a == CHOOSE x \in A : \A y \in A : x <= y
             b == CHOOSE x \in B : \A y \in B : x <= y
  <2>2. a \in A /\ \A y \in A : a <= y
    BY <1>2, LeastNatural
  <2>3. b \in B /\ \A y \in B : b <= y
    BY <2>1, LeastNatural
  <2>4. Schedule!Earliest(A) = a /\ Schedule!Earliest(B) = b
    BY <1>2, <2>1 DEF Schedule!Earliest
  <2> HIDE DEF a, b
  <2>5. PICK x \in B, y \in A : x <= a /\ y <= b
    BY <2>2, <2>3
  <2>6. a = b
    BY <2>2, <2>3, <2>5
  <2> QED BY <2>4, <2>6
<1> QED BY <1>1, <1>2

LEMMA TransitionHolds ==
    ASSUME ScheduleOK(schedule), zone \in Zones, utc \in Nat
    PROVE  Schedule!TransitionIsNext
<1> DEFINE
        Ahead == (utc + 1)..(utc + 2 * WeekTicks)
        OnDaysTried == {t \in Ahead : Date(LocalAt(zone, t)) <= LastDate(zone, utc)}
        Looked == IF Skips(zone, utc) THEN OnDaysTried ELSE Ahead
        Found == {c \in Schedule!Candidates(schedule, zone, utc) :
                     ChangesAt(schedule, zone, c)}
        There == {t \in Looked : ChangesAt(schedule, zone, t)}
<1>1. WeekTicks \in Nat /\ DayTicks \in Nat /\ zone.at \in Int
  BY DayLength, WeekLength, ZoneFacts
<1>2. \A t \in Ahead : t \in Nat /\ utc < t /\ t <= utc + 2 * WeekTicks
  BY <1>1
<1>3. \A t \in Nat : utc < t /\ t <= utc + 2 * WeekTicks => t \in Ahead
  BY <1>1
<1>4. \A t \in Int : LocalAt(zone, t) \in Int /\ LocalAt(zone, t - 1) \in Int
  BY LocalIs
<1>5. Schedule!TransitionIsNext <=>
          Schedule!NextTransition(schedule, zone, utc) = Schedule!Earliest(There)
  <2>1. Schedule!Ahead = Ahead
    BY DEF Schedule!Ahead, WeekTicks
  <2>2. \A t : Schedule!Tried(zone, utc, t)
                   <=> Date(LocalAt(zone, t)) <= LastDate(zone, utc)
    BY DEF Schedule!Tried, Date, LocalAt, LastDate
  <2>3. {t \in Schedule!Ahead : Schedule!Tried(zone, utc, t)} = OnDaysTried
    BY <2>1, <2>2
  <2>4. zone.before < zone.after /\ zone.at \in OnDaysTried <=> Skips(zone, utc)
    BY <1>1 DEF Skips
  <2>5. \A S \in SUBSET Ahead :
            {t \in S : Schedule!Promised(schedule, zone, t - 1)
                           # Schedule!Promised(schedule, zone, t)}
                = {t \in S : ChangesAt(schedule, zone, t)}
    <3>1. ASSUME NEW t \in Ahead
          PROVE  Schedule!Promised(schedule, zone, t - 1)
                     # Schedule!Promised(schedule, zone, t)
                 <=> ChangesAt(schedule, zone, t)
      <4>1. t \in Int /\ LocalAt(zone, t) \in Int /\ LocalAt(zone, t - 1) \in Int
        BY <1>2, <1>4
      <4>2. /\ Schedule!Promised(schedule, zone, t)
                  <=> ActiveAt(schedule, LocalAt(zone, t))
            /\ Schedule!Promised(schedule, zone, t - 1)
                  <=> ActiveAt(schedule, LocalAt(zone, t - 1))
        BY <4>1, PromisedAt
      <4>3. /\ Schedule!Promised(schedule, zone, t) \in BOOLEAN
            /\ Schedule!Promised(schedule, zone, t - 1) \in BOOLEAN
        BY DEF Schedule!Promised
      <4> QED BY <4>2, <4>3 DEF ChangesAt
    <3> QED BY <3>1
  <2>6. \A S \in SUBSET Ahead :
            Schedule!NextAmong(S) = Schedule!Earliest({t \in S : ChangesAt(schedule, zone, t)})
    BY <2>5 DEF Schedule!NextAmong
  <2>7. Looked \in SUBSET Ahead
    OBVIOUS
  <2>8. (IF zone.before < zone.after /\ zone.at \in OnDaysTried THEN OnDaysTried ELSE Ahead)
            = Looked
    BY <2>4
  <2>9. Schedule!TransitionIsNext <=>
            Schedule!NextTransition(schedule, zone, utc) = Schedule!NextAmong(Looked)
    <3> HIDE DEF OnDaysTried, Ahead, Looked
    <3> QED BY <2>1, <2>3, <2>8 DEF Schedule!TransitionIsNext
  <2> QED BY <2>6, <2>7, <2>9
<1>6. \A c \in Schedule!Candidates(schedule, zone, utc) :
          c \in Nat /\ utc < c /\ c <= utc + 2 * WeekTicks
  BY <1>1, TriedInstants
<1>7. \A c : Schedule!Changes(schedule, zone, c) <=> ChangesAt(schedule, zone, c)
  <2> SUFFICES ASSUME NEW c
               PROVE  Schedule!Changes(schedule, zone, c) <=> ChangesAt(schedule, zone, c)
    OBVIOUS
  <2>1. /\ Schedule!IsActive(schedule, zone, c) <=> ActiveAt(schedule, LocalAt(zone, c))
        /\ Schedule!IsActive(schedule, zone, c - 1)
               <=> ActiveAt(schedule, LocalAt(zone, c - 1))
    BY IsActiveAt
  <2>2. /\ Schedule!IsActive(schedule, zone, c) \in BOOLEAN
        /\ Schedule!IsActive(schedule, zone, c - 1) \in BOOLEAN
    BY DEF Schedule!IsActive
  <2> QED BY <2>1, <2>2 DEF Schedule!Changes, ChangesAt
<1> HIDE DEF Ahead
<1>8. CASE ~schedule.enabled \/ ~schedule.valid \/ schedule.window.days = {}
  <2>1. \A t : ~ChangesAt(schedule, zone, t)
    BY <1>8 DEF ChangesAt, ActiveAt
  <2>2. There = {}
    BY <2>1
  <2>3. /\ Schedule!Earliest(There) = Schedule!Never
        /\ Schedule!NextTransition(schedule, zone, utc) = Schedule!Never
    BY <1>8, <2>2 DEF Schedule!Earliest, Schedule!NextTransition
  <2> QED BY <1>5, <2>3
<1>9. CASE ~(~schedule.enabled \/ ~schedule.valid \/ schedule.window.days = {})
  <2>1. Schedule!NextTransition(schedule, zone, utc) = Schedule!Earliest(Found)
    BY <1>7, <1>9 DEF Schedule!NextTransition
  <2>2. ASSUME NEW c \in Found
        PROVE  \E t \in There : t <= c
    <3>1. c \in Ahead /\ c \in Nat /\ ChangesAt(schedule, zone, c)
      BY <1>3, <1>6
    <3>2. CASE ~Skips(zone, utc) \/ Date(LocalAt(zone, c)) <= LastDate(zone, utc)
      BY <3>1, <3>2
    <3>3. CASE Skips(zone, utc) /\ ~(Date(LocalAt(zone, c)) <= LastDate(zone, utc))
      <4>1. PICK v \in Nat : /\ utc < v /\ v <= c /\ ChangesAt(schedule, zone, v)
                             /\ Date(LocalAt(zone, v)) <= LastDate(zone, utc)
        BY <3>1, <3>3, SkippedIsNotFirst
      <4>2. v \in Ahead
        BY <1>1, <1>3, <1>6, <3>1, <4>1
      <4> QED BY <3>3, <4>1, <4>2
    <3> QED BY <3>2, <3>3
  <2>3. ASSUME NEW t \in There
        PROVE  \E c \in Found : c <= t
    <3>1. /\ t \in Nat /\ utc < t /\ t <= utc + 2 * WeekTicks
          /\ ChangesAt(schedule, zone, t)
      BY <1>2
    <3>2. CASE Date(LocalAt(zone, t)) <= LastDate(zone, utc)
      <4>1. t \in Schedule!Candidates(schedule, zone, utc)
        BY <3>1, <3>2, ChangeIsTried
      <4> QED BY <3>1, <4>1
    <3>3. CASE ~(Date(LocalAt(zone, t)) <= LastDate(zone, utc))
      <4>1. ~Skips(zone, utc)
        BY <3>3
      <4>2. PICK u \in Nat : /\ u > utc /\ Date(LocalAt(zone, u)) <= LastDate(zone, utc)
                             /\ ChangesAt(schedule, zone, u)
        BY <3>1, <4>1, NothingMissed
      <4>3. u \in Schedule!Candidates(schedule, zone, utc)
        BY <4>2, ChangeIsTried
      <4>4. u <= t
        <5>1. t <= u => Date(LocalAt(zone, t)) <= Date(LocalAt(zone, u))
          BY <3>1, <4>2, DatesGoOn
        <5>2. /\ Date(LocalAt(zone, t)) \in Int /\ Date(LocalAt(zone, u)) \in Int
              /\ LastDate(zone, utc) \in Int
          <6>1. /\ LocalAt(zone, t) \in Int /\ LocalAt(zone, u) \in Int
                /\ LocalAt(zone, utc) \in Int
            BY <3>1, <4>2, LocalIs
          <6> QED BY <6>1, DateAndClock, DayLength DEF LastDate
        <5> QED BY <3>1, <3>3, <4>2, <5>1, <5>2
      <4> QED BY <4>2, <4>3, <4>4
    <3> QED BY <3>2, <3>3
  <2>4. Found \in SUBSET Nat /\ There \in SUBSET Nat
    BY <1>2, <1>6
  <2> HIDE DEF Found, There
  <2>5. Schedule!Earliest(Found) = Schedule!Earliest(There)
    BY <2>2, <2>3, <2>4, EarliestAgree
  <2> QED BY <1>5, <2>1, <2>5
<1> QED BY <1>8, <1>9

\* A behaviour of schedules has one, and a zone, from first to last.
ScheduleInductive ==
    part = "schedules" => ScheduleOK(schedule) /\ zone \in Zones /\ utc \in Nat

LEMMA ScheduleInitInductive == PolicyInit => ScheduleInductive
BY ScheduleConstants DEF PolicyInit, ScheduleInductive, ScheduleOK, Schedule!Init,
   Schedule!Setup

LEMMA ScheduleNextInductive ==
    ScheduleInductive /\ [PolicyNext]_<<part, decisionVars, requestVars, scheduleVars>>
        => ScheduleInductive'
BY DEF ScheduleInductive, ScheduleOK, PolicyNext, scheduleVars, Schedule!Next

\* A schedule is active exactly when the guide says so, over midnight, in
\* overlapping windows and while clocks change, and the transition that is
\* announced is the next one (on the days tried, if clocks are put forward on
\* them), for weeks and days of any length, every schedule and every zone whose
\* clock changes on the hour (app/policy.py, app/inspector.py).
THEOREM SchedulesStaySound == PolicySpec => []SchedulesHold
<1>1. ScheduleInductive => SchedulesHold
  <2> SUFFICES ASSUME part = "schedules", ScheduleOK(schedule), zone \in Zones, utc \in Nat
               PROVE  Schedule!ActiveAsDocumented /\ Schedule!TransitionIsNext
    BY DEF ScheduleInductive, SchedulesHold
  <2>1. LocalAt(zone, utc) \in Int
    BY LocalIs
  <2>2. Schedule!IsActive(schedule, zone, utc) <=> Schedule!Promised(schedule, zone, utc)
    BY <2>1, IsActiveAt, PromisedAt
  <2>3. /\ Schedule!IsActive(schedule, zone, utc) \in BOOLEAN
        /\ Schedule!Promised(schedule, zone, utc) \in BOOLEAN
    BY DEF Schedule!IsActive, Schedule!Promised
  <2> QED BY <2>2, <2>3, TransitionHolds DEF Schedule!ActiveAsDocumented
<1> QED BY <1>1, ScheduleInitInductive, ScheduleNextInductive, PTL DEF PolicySpec

====
