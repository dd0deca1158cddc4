-------------------------- MODULE AmountsTheorems --------------------------
(* What the proofs need to know of amounts.  Of Total: how it answers to a   *)
(* change of the weights and of the members, and how totals add up.  Of      *)
(* shares: what is lost by rounding them down.                               *)
EXTENDS Amounts, FiniteSetTheorems, FunctionTheorems, TLAPS

(* The lamports of one member are as many as its weight. *)
LEMMA UnitsOfOne ==
  ASSUME NEW x, NEW n \in Nat
  PROVE  /\ IsFiniteSet({x} \X (1 .. n))
         /\ Cardinality({x} \X (1 .. n)) = n
<1>1. IsFiniteSet({x}) /\ Cardinality({x}) = 1
  BY FS_Singleton
<1>2. IsFiniteSet(1 .. n) /\ Cardinality(1 .. n) = n
  BY FS_Interval
<1>3. /\ IsFiniteSet({x} \X (1 .. n))
      /\ Cardinality({x} \X (1 .. n)) = Cardinality({x}) * Cardinality(1 .. n)
  BY <1>1, <1>2, FS_Product, Zenon
<1> QED BY <1>1, <1>2, <1>3

(* Finitely many members with natural weights have finitely many lamports. *)
LEMMA UnitsFinite ==
  ASSUME NEW S, IsFiniteSet(S), NEW w, \A x \in S : w[x] \in Nat
  PROVE  IsFiniteSet(Units(S, w))
<1> DEFINE Part(x) == {x} \X (1 .. w[x])
           Parts == {Part(x) : x \in S}
           f == [x \in S |-> Part(x)]
<1>1. f \in Surjection(S, Parts)
  BY DEF Surjection
<1>2. IsFiniteSet(Parts)
  BY <1>1, FS_Surjection
<1>3. \A T \in Parts : IsFiniteSet(T)
  <2> SUFFICES ASSUME NEW x \in S
               PROVE  IsFiniteSet(Part(x))
    OBVIOUS
  <2>1. w[x] \in Nat
    OBVIOUS
  <2> QED BY <2>1, UnitsOfOne, Zenon
<1>4. IsFiniteSet(UNION Parts)
  BY <1>2, <1>3, FS_UNION
<1> QED BY <1>4 DEF Units

(* A total is a natural number. *)
LEMMA TotalType ==
  ASSUME NEW S, IsFiniteSet(S), NEW w, \A x \in S : w[x] \in Nat
  PROVE  Total(S, w) \in Nat
BY UnitsFinite, FS_CardinalityType DEF Total

(* A total is the weight of one member and the total of the others. *)
LEMMA TotalSplit ==
  ASSUME NEW S, IsFiniteSet(S), NEW w, \A y \in S : w[y] \in Nat, NEW x \in S
  PROVE  Total(S, w) = Total(S \ {x}, w) + w[x]
<1> DEFINE Rest == Units(S \ {x}, w)
           Part == {x} \X (1 .. w[x])
<1>1. IsFiniteSet(S \ {x})
  BY FS_RemoveElement
<1>2. IsFiniteSet(Rest)
  BY <1>1, UnitsFinite
<1>3. IsFiniteSet(Part) /\ Cardinality(Part) = w[x]
  BY UnitsOfOne
<1>4. Units(S, w) = Rest \cup Part
  BY DEF Units
<1>5. Rest \cap Part = {}
  BY DEF Units
<1>6. Cardinality(Rest \cup Part)
        = Cardinality(Rest) + Cardinality(Part) - Cardinality(Rest \cap Part)
  <2> HIDE DEF Rest, Part
  <2> QED BY <1>2, <1>3, FS_Union, Zenon
<1>7. Cardinality(Rest) \in Nat
  BY <1>2, FS_CardinalityType
<1>8. Cardinality(Rest \cap Part) = 0
  <2> HIDE DEF Rest, Part
  <2> QED BY <1>5, FS_EmptySet, Zenon
<1>9. Cardinality(Rest \cup Part) = Cardinality(Rest) + w[x]
  <2> HIDE DEF Rest, Part
  <2>1. w[x] \in Nat
    OBVIOUS
  <2> QED BY <1>3, <1>6, <1>7, <1>8, <2>1
<1> QED BY <1>4, <1>9, Zenon DEF Total

(* Only the weights of the members matter. *)
LEMMA TotalSame ==
  ASSUME NEW S, NEW w, NEW u, \A x \in S : w[x] = u[x]
  PROVE  Total(S, w) = Total(S, u)
<1>1. Units(S, w) = Units(S, u)
  BY DEF Units
<1> QED BY <1>1 DEF Total

(* Changing the weight of one member changes the total by as much. *)
LEMMA TotalChange ==
  ASSUME NEW S, IsFiniteSet(S), NEW x \in S,
         NEW w, \A y \in S : w[y] \in Nat,
         NEW u, \A y \in S : u[y] \in Nat,
         \A y \in S \ {x} : u[y] = w[y]
  PROVE  Total(S, u) = Total(S, w) + u[x] - w[x]
<1>1. Total(S, w) = Total(S \ {x}, w) + w[x]
  BY TotalSplit
<1>2. Total(S, u) = Total(S \ {x}, u) + u[x]
  BY TotalSplit
<1>3. Total(S \ {x}, u) = Total(S \ {x}, w)
  BY TotalSame
<1>4. Total(S \ {x}, w) \in Nat
  BY FS_RemoveElement, TotalType
<1> QED BY <1>1, <1>2, <1>3, <1>4

(* The same for two members. *)
LEMMA TotalChangeTwo ==
  ASSUME NEW S, IsFiniteSet(S), NEW x \in S, NEW z \in S, x # z,
         NEW w, \A y \in S : w[y] \in Nat,
         NEW u, \A y \in S : u[y] \in Nat,
         \A y \in S \ {x, z} : u[y] = w[y]
  PROVE  Total(S, u) = Total(S, w) + u[x] - w[x] + u[z] - w[z]
<1> DEFINE m == [y \in S |-> IF y = x THEN u[y] ELSE w[y]]
<1>1. \A y \in S : m[y] \in Nat
  OBVIOUS
<1>2. Total(S, m) = Total(S, w) + m[x] - w[x]
  <2>1. \A y \in S \ {x} : m[y] = w[y]
    OBVIOUS
  <2> HIDE DEF m
  <2> QED BY <1>1, <2>1, TotalChange
<1>3. Total(S, u) = Total(S, m) + u[z] - m[z]
  <2>1. \A y \in S \ {z} : u[y] = m[y]
    OBVIOUS
  <2> HIDE DEF m
  <2> QED BY <1>1, <2>1, TotalChange
<1>4. m[x] = u[x] /\ m[z] = w[z]
  OBVIOUS
<1>5. Total(S, w) \in Nat
  BY TotalType
<1> QED BY <1>2, <1>3, <1>4, <1>5

(* No member weighs more than the total. *)
LEMMA TotalBoundsMember ==
  ASSUME NEW S, IsFiniteSet(S), NEW w, \A y \in S : w[y] \in Nat, NEW x \in S
  PROVE  w[x] <= Total(S, w)
<1>1. Total(S \ {x}, w) \in Nat
  BY FS_RemoveElement, TotalType
<1> QED BY <1>1, TotalSplit

(* Members that weigh no less have a total that is no less. *)
LEMMA TotalMonotone ==
  ASSUME NEW S, IsFiniteSet(S),
         NEW w, \A x \in S : w[x] \in Nat,
         NEW u, \A x \in S : u[x] \in Nat,
         \A x \in S : w[x] <= u[x]
  PROVE  Total(S, w) <= Total(S, u)
<1>1. Units(S, w) \subseteq Units(S, u)
  BY DEF Units
<1>2. IsFiniteSet(Units(S, u))
  BY UnitsFinite
<1> QED BY <1>1, <1>2, FS_Subset DEF Total

(* Members that weigh nothing have no lamports. *)
LEMMA TotalZero ==
  ASSUME NEW S, NEW w, \A x \in S : w[x] = 0
  PROVE  Total(S, w) = 0
<1>1. Units(S, w) = {}
  BY DEF Units
<1> QED BY <1>1, FS_EmptySet DEF Total

(* Members that weigh nothing can be left out. *)
LEMMA TotalOfPart ==
  ASSUME NEW S, NEW T \in SUBSET S, NEW w, NEW u,
         \A x \in T : w[x] = u[x], \A x \in S \ T : u[x] = 0
  PROVE  Total(T, w) = Total(S, u)
<1>1. Units(T, w) = Units(S, u)
  BY DEF Units
<1> QED BY <1>1 DEF Total

(* The total over two sets that share no member. *)
LEMMA TotalUnion ==
  ASSUME NEW S, IsFiniteSet(S), NEW T, IsFiniteSet(T), S \cap T = {},
         NEW w, \A x \in S \cup T : w[x] \in Nat
  PROVE  Total(S \cup T, w) = Total(S, w) + Total(T, w)
<1>1. IsFiniteSet(Units(S, w)) /\ IsFiniteSet(Units(T, w))
  BY UnitsFinite
<1>2. Units(S \cup T, w) = Units(S, w) \cup Units(T, w)
  BY DEF Units
<1>3. Units(S, w) \cap Units(T, w) = {}
  BY DEF Units
<1>4. Cardinality(Units(S, w) \cup Units(T, w)) = Cardinality(Units(S, w))
        + Cardinality(Units(T, w)) - Cardinality(Units(S, w) \cap Units(T, w))
  BY <1>1, FS_Union, Zenon
<1>5. Cardinality(Units(S, w) \cap Units(T, w)) = 0
  BY <1>3, FS_EmptySet, Zenon
<1>6. Cardinality(Units(S, w)) \in Nat /\ Cardinality(Units(T, w)) \in Nat
  BY <1>1, FS_CardinalityType
<1>7. Cardinality(Units(S, w) \cup Units(T, w))
        = Cardinality(Units(S, w)) + Cardinality(Units(T, w))
  BY <1>4, <1>5, <1>6
<1> QED BY <1>2, <1>7, Zenon DEF Total

(* The total of sums is the sum of the totals. *)
LEMMA TotalPlus ==
  ASSUME NEW S, IsFiniteSet(S),
         NEW w, \A x \in S : w[x] \in Nat,
         NEW u, \A x \in S : u[x] \in Nat,
         NEW s, \A x \in S : s[x] = w[x] + u[x]
  PROVE  Total(S, s) = Total(S, w) + Total(S, u)
<1> DEFINE Above == UNION {{x} \X ((w[x] + 1) .. s[x]) : x \in S}
           shift == [p \in Units(S, u) |-> <<p[1], w[p[1]] + p[2]>>]
<1>1. Units(S, s) = Units(S, w) \cup Above
  <2>1. \A x \in S : 1 .. s[x] = (1 .. w[x]) \cup ((w[x] + 1) .. s[x])
    OBVIOUS
  <2> QED BY <2>1 DEF Units
<1>2. Units(S, w) \cap Above = {}
  BY DEF Units
<1>3. \A p \in Units(S, u) : p = <<p[1], p[2]>> /\ p[1] \in S /\ p[2] \in 1 .. u[p[1]]
  BY DEF Units
<1>4. shift \in [Units(S, u) -> Above]
  <2> SUFFICES ASSUME NEW p \in Units(S, u) PROVE shift[p] \in Above
    OBVIOUS
  <2>1. w[p[1]] + p[2] \in (w[p[1]] + 1) .. s[p[1]]
    BY <1>3
  <2> QED BY <1>3, <2>1
<1>5. \A p, q \in Units(S, u) : shift[p] = shift[q] => p = q
  <2> SUFFICES ASSUME NEW p \in Units(S, u), NEW q \in Units(S, u), shift[p] = shift[q]
               PROVE  p = q
    OBVIOUS
  <2>1. p[1] = q[1] /\ w[p[1]] + p[2] = w[q[1]] + q[2]
    OBVIOUS
  <2>2. p[2] = q[2]
    BY <1>3, <2>1
  <2> QED BY <1>3, <2>1, <2>2
<1>6. \A r \in Above : \E p \in Units(S, u) : shift[p] = r
  <2> SUFFICES ASSUME NEW r \in Above PROVE \E p \in Units(S, u) : shift[p] = r
    OBVIOUS
  <2>1. PICK x \in S : \E i \in (w[x] + 1) .. s[x] : r = <<x, i>>
    OBVIOUS
  <2>2. PICK i \in (w[x] + 1) .. s[x] : r = <<x, i>>
    BY <2>1
  <2>3. i - w[x] \in 1 .. u[x] /\ w[x] + (i - w[x]) = i
    OBVIOUS
  <2>4. <<x, i - w[x]>> \in Units(S, u)
    BY <2>3 DEF Units
  <2>5. shift[<<x, i - w[x]>>] = <<x, i>>
    BY <2>3, <2>4
  <2> QED BY <2>2, <2>4, <2>5
<1>7. shift \in Bijection(Units(S, u), Above)
  <2> HIDE DEF shift, Above
  <2> QED BY <1>4, <1>5, <1>6, Fun_IsBij
<1>8. IsFiniteSet(Units(S, u)) /\ IsFiniteSet(Units(S, w))
  BY UnitsFinite
<1>9. IsFiniteSet(Above) /\ Cardinality(Above) = Cardinality(Units(S, u))
  <2> HIDE DEF shift, Above
  <2>1. ExistsBijection(Units(S, u), Above)
    BY <1>7 DEF ExistsBijection
  <2> QED BY <1>8, <2>1, FS_Bijection
<1>10. Cardinality(Units(S, w) \cup Above)
         = Cardinality(Units(S, w)) + Cardinality(Above) - Cardinality(Units(S, w) \cap Above)
  <2> HIDE DEF Above
  <2> QED BY <1>8, <1>9, FS_Union, Zenon
<1>11. Cardinality(Units(S, w) \cap Above) = 0
  <2> HIDE DEF Above
  <2> QED BY <1>2, FS_EmptySet, Zenon
<1>12. Cardinality(Units(S, w)) \in Nat /\ Cardinality(Units(S, u)) \in Nat
  BY <1>8, FS_CardinalityType
<1> HIDE DEF Above, shift
<1> QED BY <1>1, <1>9, <1>10, <1>11, <1>12 DEF Total

(* The members of S sorted into parts by their keys, all of them in V; each *)
(* member has a weight, and each part a total.                              *)
SortedByKey(S, key, V, part) ==
  /\ \A x \in S : key[x] \in V
  /\ \A v \in V : \A x : x \in part[v] <=> x \in S /\ key[x] = v
Weighed(S, w) == \A x \in S : w[x] \in Nat
TotalledByPart(V, part, w, c) == \A v \in V : c[v] = Total(part[v], w)

(* The members that share a key are totalled by that key: the total of      *)
(* these totals is the total of all members.                                *)
LEMMA TotalByKey ==
  ASSUME NEW S, IsFiniteSet(S), NEW w, Weighed(S, w),
         NEW V, IsFiniteSet(V), NEW key, NEW part, SortedByKey(S, key, V, part),
         NEW c, TotalledByPart(V, part, w, c)
  PROVE  Total(S, w) = Total(V, c)
<1>0. /\ \A x \in S : w[x] \in Nat
      /\ \A x \in S : key[x] \in V
      /\ \A v \in V : \A x : x \in part[v] <=> x \in S /\ key[x] = v
      /\ \A v \in V : c[v] = Total(part[v], w)
  BY DEF Weighed, SortedByKey, TotalledByPart
<1> DEFINE b(v) == CHOOSE f : f \in Bijection(1 .. c[v], Units(part[v], w))
           G == [p \in Units(V, c) |-> b(p[1])[p[2]]]
<1>1. \A v \in V : IsFiniteSet(Units(part[v], w))
  <2> SUFFICES ASSUME NEW v \in V PROVE IsFiniteSet(Units(part[v], w))
    OBVIOUS
  <2>1. IsFiniteSet(part[v])
    BY <1>0, FS_Subset
  <2> QED BY <1>0, <2>1, UnitsFinite
<1>2. \A v \in V : b(v) \in Bijection(1 .. c[v], Units(part[v], w)) /\ c[v] \in Nat
  <2> SUFFICES ASSUME NEW v \in V
               PROVE  b(v) \in Bijection(1 .. c[v], Units(part[v], w)) /\ c[v] \in Nat
    OBVIOUS
  <2>1. /\ Cardinality(Units(part[v], w)) \in Nat
        /\ ExistsBijection(1 .. Cardinality(Units(part[v], w)), Units(part[v], w))
    <3>1. IsFiniteSet(Units(part[v], w))
      BY <1>1
    <3> QED BY <3>1, FS_CardinalityType
  <2>2. c[v] = Cardinality(Units(part[v], w))
    BY <1>0 DEF Total
  <2> QED BY <2>1, <2>2 DEF ExistsBijection
<1>3. \A v \in V : /\ b(v) \in [1 .. c[v] -> Units(part[v], w)]
                   /\ \A i, j \in 1 .. c[v] : b(v)[i] = b(v)[j] => i = j
                   /\ \A t \in Units(part[v], w) : \E i \in 1 .. c[v] : b(v)[i] = t
  <2> HIDE DEF b
  <2> QED BY <1>2, Fun_BijectionProperties
<1> HIDE DEF b
<1>4. \A p \in Units(V, c) : p = <<p[1], p[2]>> /\ p[1] \in V /\ p[2] \in 1 .. c[p[1]]
  BY DEF Units
<1>5. \A p \in Units(V, c) : G[p] \in Units(part[p[1]], w)
  <2> SUFFICES ASSUME NEW p \in Units(V, c) PROVE G[p] \in Units(part[p[1]], w)
    OBVIOUS
  <2>1. p[1] \in V /\ p[2] \in 1 .. c[p[1]]
    BY <1>4
  <2>2. G[p] = b(p[1])[p[2]]
    OBVIOUS
  <2>3. b(p[1]) \in [1 .. c[p[1]] -> Units(part[p[1]], w)]
    BY <1>3, <2>1, Zenon
  <2> HIDE DEF G
  <2> QED BY <2>1, <2>2, <2>3, Zenon
<1>6. \A v \in V : \A t \in Units(part[v], w) : t \in Units(S, w) /\ key[t[1]] = v
  BY <1>0 DEF Units
<1>7. G \in [Units(V, c) -> Units(S, w)]
  <2> SUFFICES ASSUME NEW p \in Units(V, c) PROVE G[p] \in Units(S, w)
    BY Zenon
  <2> HIDE DEF G
  <2> QED BY <1>4, <1>5, <1>6
<1>8. \A p, q \in Units(V, c) : G[p] = G[q] => p = q
  <2> SUFFICES ASSUME NEW p \in Units(V, c), NEW q \in Units(V, c), G[p] = G[q]
               PROVE  p = q
    OBVIOUS
  <2>1. p[1] = q[1]
    <3> HIDE DEF G
    <3> QED BY <1>4, <1>5, <1>6
  <2>2. b(p[1])[p[2]] = b(p[1])[q[2]]
    BY <2>1
  <2>3. p[2] = q[2]
    BY <1>3, <1>4, <2>1, <2>2
  <2> QED BY <1>4, <2>1, <2>3
<1>9. \A t \in Units(S, w) : \E p \in Units(V, c) : G[p] = t
  <2> SUFFICES ASSUME NEW t \in Units(S, w) PROVE \E p \in Units(V, c) : G[p] = t
    OBVIOUS
  <2>1. PICK x \in S : \E k \in 1 .. w[x] : t = <<x, k>>
    BY DEF Units
  <2>2. PICK k \in 1 .. w[x] : t = <<x, k>>
    BY <2>1
  <2>3. key[x] \in V /\ <<x, k>> \in Units(part[key[x]], w)
    BY <1>0, <2>2 DEF Units
  <2>4. PICK i \in 1 .. c[key[x]] : b(key[x])[i] = <<x, k>>
    BY <1>3, <2>3
  <2>5. <<key[x], i>> \in Units(V, c)
    BY <2>3, <2>4 DEF Units
  <2> QED BY <2>2, <2>4, <2>5
<1> HIDE DEF G
<1>10. G \in Bijection(Units(V, c), Units(S, w))
  BY <1>7, <1>8, <1>9, Fun_IsBij
<1>11. IsFiniteSet(Units(V, c))
  BY <1>2, UnitsFinite
<1>12. ExistsBijection(Units(V, c), Units(S, w))
  BY <1>10 DEF ExistsBijection
<1> QED BY <1>11, <1>12, FS_Bijection DEF Total

(* Rounding down: what a division loses is less than one. *)
LEMMA RoundedDown ==
  ASSUME NEW x \in Nat, NEW M \in Nat \ {0}
  PROVE  /\ x \div M \in Nat
         /\ M * (x \div M) <= x
         /\ x < M * (x \div M) + M
OBVIOUS

(* A share of n, of c in M parts, is at most n. *)
LEMMA Share ==
  ASSUME NEW M \in Nat \ {0}, NEW c \in 0 .. M, NEW n \in Nat
  PROVE  /\ (n * c) \div M \in 0 .. n
         /\ M * ((n * c) \div M) <= n * c
         /\ n * c < M * ((n * c) \div M) + M
<1>1. n * c \in Nat /\ n * c <= n * M
  OBVIOUS
<1>2. /\ (n * c) \div M \in Nat
      /\ M * ((n * c) \div M) <= n * c
      /\ n * c < M * ((n * c) \div M) + M
  BY <1>1, RoundedDown
<1>3. M * ((n * c) \div M) <= M * n
  BY <1>1, <1>2
<1>4. (n * c) \div M <= n
  BY <1>2, <1>3
<1> QED BY <1>2, <1>4

(* More is not less when both are rounded down. *)
LEMMA ShareMonotone ==
  ASSUME NEW M \in Nat \ {0}, NEW c \in Nat, NEW d \in Nat, c <= d
  PROVE  c \div M <= d \div M
<1>1. /\ c \div M \in Nat /\ d \div M \in Nat
      /\ M * (c \div M) <= c /\ d < M * (d \div M) + M
  BY RoundedDown
<1> DEFINE p == c \div M
           q == d \div M
<1> HIDE DEF p, q
<1>2. M * p < M * (q + 1)
  BY <1>1 DEF p, q
<1>3. p < q + 1
  BY <1>1, <1>2 DEF p, q
<1> QED BY <1>1, <1>3 DEF p, q

(* The total of members that weigh the same. *)
LEMMA TotalOfEqual ==
  ASSUME NEW S, IsFiniteSet(S), NEW k \in Nat, NEW w, \A x \in S : w[x] = k
  PROVE  Total(S, w) = Cardinality(S) * k
<1>1. Units(S, w) = S \X (1 .. k)
  BY DEF Units
<1>2. IsFiniteSet(1 .. k) /\ Cardinality(1 .. k) = k
  BY FS_Interval
<1> QED BY <1>1, <1>2, FS_Product DEF Total

(* A total of weights, each k times as much. *)
LEMMA TotalScaled ==
  ASSUME NEW S, IsFiniteSet(S), NEW w, \A x \in S : w[x] \in Nat,
         NEW k \in Nat, NEW u, \A x \in S : u[x] = w[x] * k
  PROVE  Total(S, u) = Total(S, w) * k
<1> DEFINE P    == Units(S, w)
           same == [p \in P |-> k]
           key  == [p \in P |-> p[1]]
           part == [x \in S |-> {x} \X (1 .. w[x])]
<1>1. IsFiniteSet(P)
  BY UnitsFinite
<1>2. Total(P, same) = Cardinality(P) * k
  BY <1>1, TotalOfEqual
<1>3. \A p : p \in P <=> \E x \in S : p \in part[x]
  BY DEF Units
<1>4. \A x \in S : \A p \in part[x] : p[1] = x
  OBVIOUS
<1>5. SortedByKey(P, key, S, part)
  <2>1. \A p \in P : p[1] \in S /\ p \in part[p[1]]
    BY <1>3, <1>4
  <2>2. \A p \in P : key[p] = p[1]
    OBVIOUS
  <2> HIDE DEF P, part, key
  <2> QED BY <1>3, <1>4, <2>1, <2>2 DEF SortedByKey
<1>6. Weighed(P, same)
  BY DEF Weighed
<1>7. TotalledByPart(S, part, same, u)
  <2> SUFFICES ASSUME NEW x \in S
               PROVE  u[x] = Total(part[x], same)
    BY DEF TotalledByPart
  <2>1. IsFiniteSet(part[x]) /\ Cardinality(part[x]) = w[x]
    BY UnitsOfOne
  <2>2. \A p \in part[x] : same[p] = k
    BY <1>3
  <2> HIDE DEF part, same
  <2> QED BY <2>1, <2>2, TotalOfEqual
<1> HIDE DEF P, same, key, part
<1>8. Total(P, same) = Total(S, u)
  BY <1>1, <1>5, <1>6, <1>7, TotalByKey
<1> QED BY <1>2, <1>8 DEF Total, P

(* Shares of n in proportion to the weights, rounded down, are together no   *)
(* more than n.                                                              *)
LEMMA SharesFit ==
  ASSUME NEW S, IsFiniteSet(S), NEW w, \A x \in S : w[x] \in Nat,
         NEW n \in Nat, Total(S, w) # 0,
         NEW u, \A x \in S : u[x] = (n * w[x]) \div Total(S, w)
  PROVE  Total(S, u) <= n
<1> DEFINE M  == Total(S, w)
           um == [x \in S |-> u[x] * M]
           nw == [x \in S |-> w[x] * n]
<1>1. M \in Nat \ {0}
  BY TotalType
<1> HIDE DEF M
<1>2. \A x \in S : /\ u[x] \in Nat /\ um[x] \in Nat /\ nw[x] \in Nat
                   /\ um[x] <= nw[x]
  <2> TAKE x \in S
  <2>1. n * w[x] \in Nat /\ n * w[x] = w[x] * n
    OBVIOUS
  <2>2. u[x] \in Nat /\ M * u[x] <= n * w[x]
    BY <1>1, <2>1, RoundedDown DEF M
  <2>3. M * u[x] = u[x] * M /\ u[x] * M \in Nat
    BY <1>1, <2>2
  <2> QED BY <2>1, <2>2, <2>3
<1>3. Total(S, um) <= Total(S, nw)
  BY <1>2, TotalMonotone
<1>4. Total(S, um) = Total(S, u) * M
  BY <1>1, <1>2, TotalScaled
<1>5. Total(S, nw) = M * n
  BY TotalScaled DEF M
<1>6. Total(S, u) \in Nat
  BY <1>2, TotalType
<1>7. ASSUME Total(S, u) > n
      PROVE  FALSE
  <2> DEFINE t == Total(S, u)
  <2> HIDE DEF t
  <2>1. t \in Nat /\ t > n /\ t * M <= M * n
    BY <1>3, <1>4, <1>5, <1>6, <1>7 DEF t
  <2>2. PICK d \in Nat : t = n + 1 + d
    BY <2>1
  <2>3. t * M = n * M + M + d * M /\ d * M \in Nat /\ n * M = M * n
    BY <1>1, <2>2
  <2> QED BY <1>1, <2>1, <2>3
<1> QED BY <1>6, <1>7
=============================================================================
