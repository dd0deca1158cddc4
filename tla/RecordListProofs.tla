-------------------------- MODULE RecordListProofs --------------------------
(* The list of records is what it promises, for any addresses, any capacity  *)
(* and any indexes its callers pass: its invariants are inductive, and every *)
(* step of it is a step of RecordStore.                                      *)
EXTENDS RecordList, AmountsTheorems

IInv == ListTypeOK /\ ListedOnce

(* A list of n records in c slots, of the addresses in set. *)
Listing(s, n, set, c) ==
  /\ s \in Data(c) /\ n \in 0 .. c /\ set \subseteq Addresses
  /\ \A i \in 0 .. (n - 1) : s[i] \in Record
  /\ set = {s[i].address : i \in 0 .. (n - 1)}
  /\ \A i, j \in 0 .. (n - 1) : s[i].address = s[j].address => i = j

(* Its records by address: "records" is that of the state. *)
ByAddress(s, n, set) ==
  [a \in Addresses |->
     IF a \in set THEN s[CHOOSE i \in 0 .. (n - 1) : s[i].address = a].lamports ELSE -1]
-----------------------------------------------------------------------------
(* What the primitives do to a list. *)

LEMMA ByAddressAt ==
  ASSUME NEW c \in Nat, NEW s, NEW n, NEW set, Listing(s, n, set, c),
         NEW i \in 0 .. (n - 1)
  PROVE  /\ s[i] \in Record /\ s[i].address \in set
         /\ ByAddress(s, n, set)[s[i].address] = s[i].lamports
<1> DEFINE k == CHOOSE j \in 0 .. (n - 1) : s[j].address = s[i].address
<1>1. k \in 0 .. (n - 1) /\ s[k].address = s[i].address
  OBVIOUS
<1>2. k = i
  BY <1>1 DEF Listing
<1>3. s[i].address \in set /\ set \subseteq Addresses /\ s[i] \in Record
  BY DEF Listing
<1>4. ByAddress(s, n, set)[s[i].address] = s[k].lamports
  BY <1>3 DEF ByAddress
<1> QED BY <1>2, <1>3, <1>4

(* Two lists of the same addresses, with the same lamports for each. *)
LEMMA ByAddressIs ==
  ASSUME NEW c \in Nat, NEW s, NEW n, NEW set, Listing(s, n, set, c),
         NEW g, g = [a \in Addresses |-> g[a]],
         \A i \in 0 .. (n - 1) : g[s[i].address] = s[i].lamports,
         \A a \in Addresses \ set : g[a] = -1
  PROVE  ByAddress(s, n, set) = g
<1>1. \A a \in Addresses : ByAddress(s, n, set)[a] = g[a]
  <2> SUFFICES ASSUME NEW a \in Addresses
               PROVE  ByAddress(s, n, set)[a] = g[a]
    OBVIOUS
  <2>1. CASE a \in set
    <3>1. PICK i \in 0 .. (n - 1) : s[i].address = a
      BY <2>1 DEF Listing
    <3> QED BY <3>1, ByAddressAt
  <2>2. CASE a \notin set
    BY <2>2 DEF ByAddress
  <2> QED BY <2>1, <2>2
<1>2. ByAddress(s, n, set) = [a \in Addresses |-> ByAddress(s, n, set)[a]]
  BY DEF ByAddress
<1> HIDE DEF ByAddress
<1> QED BY <1>1, <1>2, Zenon

LEMMA Replaced ==
  ASSUME NEW S, NEW f, f = [x \in S |-> f[x]], NEW y \in S, NEW v
  PROVE  LET g == [f EXCEPT ![y] = v]
         IN  g = [x \in S |-> g[x]] /\ g[y] = v /\ \A x \in S : x # y => g[x] = f[x]
  OBVIOUS

LEMMA ImageIs ==
  ASSUME NEW set, NEW t, NEW n,
         \A k \in 0 .. n : t[k].address \in set,
         \A a \in set : \E k \in 0 .. n : t[k].address = a
  PROVE  set = {t[k].address : k \in 0 .. n}
  BY Zenon

LEMMA PushedListing ==
  ASSUME NEW c \in Nat, NEW s, NEW n, NEW set, Listing(s, n, set, c), n < c,
         NEW r \in Record, r.address \notin set
  PROVE  /\ Listing(Pushed(s, n, r), n + 1, set \cup {r.address}, c)
         /\ ByAddress(Pushed(s, n, r), n + 1, set \cup {r.address})
              = [ByAddress(s, n, set) EXCEPT ![r.address] = r.lamports]
<1> DEFINE t == Pushed(s, n, r)
<1>1. s \in Data(c) /\ n \in Nat /\ n \in 0 .. (c - 1) /\ set \subseteq Addresses
      /\ r.address \in Addresses
  BY DEF Listing, Record
<1>2. t \in Data(c)
  BY <1>1 DEF Pushed, Data
<1>3. \A i \in 0 .. n : t[i] = IF i = n THEN r ELSE s[i]
  BY <1>1 DEF Pushed, Data
<1>4. /\ (n + 1) - 1 = n /\ n \in 0 .. n /\ n + 1 \in 0 .. c
      /\ \A i \in 0 .. n : i = n \/ i \in 0 .. (n - 1)
      /\ \A i \in 0 .. (n - 1) : i \in 0 .. n /\ i # n
  BY <1>1
<1>5. \A i \in 0 .. (n - 1) : t[i] = s[i] /\ s[i].address \in set /\ s[i] \in Record
  BY <1>3, <1>4 DEF Listing
<1>6. t[n] = r
  BY <1>3, <1>4
<1>7. \A i \in 0 .. n : t[i] \in Record
  BY <1>4, <1>5, <1>6
<1>8. set \cup {r.address} = {t[i].address : i \in 0 .. n}
  <2>1. \A a \in set : \E i \in 0 .. n : t[i].address = a
    BY <1>4, <1>5 DEF Listing
  <2>2. \E i \in 0 .. n : t[i].address = r.address
    BY <1>4, <1>6
  <2>3. \A i \in 0 .. n : t[i].address \in set \cup {r.address}
    BY <1>4, <1>5, <1>6
  <2> HIDE DEF t
  <2> QED BY <2>1, <2>2, <2>3, Zenon
<1>9. \A i, j \in 0 .. n : t[i].address = t[j].address => i = j
  <2> SUFFICES ASSUME NEW i \in 0 .. n, NEW j \in 0 .. n, t[i].address = t[j].address
               PROVE  i = j
    OBVIOUS
  <2>1. CASE i = n \/ j = n
    BY <1>4, <1>5, <1>6, <2>1
  <2>2. CASE i # n /\ j # n
    BY <1>4, <1>5, <2>2 DEF Listing
  <2> QED BY <2>1, <2>2
<1>10. Listing(t, n + 1, set \cup {r.address}, c)
  <2> HIDE DEF t
  <2> QED BY <1>1, <1>2, <1>4, <1>7, <1>8, <1>9 DEF Listing
<1> DEFINE g == [ByAddress(s, n, set) EXCEPT ![r.address] = r.lamports]
<1>11. /\ g = [a \in Addresses |-> g[a]] /\ g[r.address] = r.lamports
       /\ \A a \in Addresses : a # r.address => g[a] = ByAddress(s, n, set)[a]
  <2>1. ByAddress(s, n, set) = [a \in Addresses |-> ByAddress(s, n, set)[a]]
    BY DEF ByAddress
  <2> HIDE DEF ByAddress
  <2> QED BY <1>1, <2>1, Replaced
<1>12. \A i \in 0 .. n : g[t[i].address] = t[i].lamports
  <2> SUFFICES ASSUME NEW i \in 0 .. n PROVE g[t[i].address] = t[i].lamports
    OBVIOUS
  <2>1. CASE i = n
    BY <1>6, <1>11, <2>1
  <2>2. CASE i \in 0 .. (n - 1)
    <3>1. t[i] = s[i] /\ s[i].address \in Addresses /\ s[i].address # r.address
      BY <1>1, <1>5, <2>2
    <3>2. ByAddress(s, n, set)[s[i].address] = s[i].lamports
      BY <2>2, ByAddressAt
    <3> QED BY <1>11, <3>1, <3>2
  <2> QED BY <1>4, <2>1, <2>2
<1>13. \A a \in Addresses \ (set \cup {r.address}) : g[a] = -1
  BY <1>11 DEF ByAddress
<1> HIDE DEF g, t
<1>14. ByAddress(t, n + 1, set \cup {r.address}) = g
  BY <1>4, <1>10, <1>11, <1>12, <1>13, ByAddressIs
<1> QED BY <1>10, <1>14 DEF g, t

LEMMA PutListing ==
  ASSUME NEW c \in Nat, NEW s, NEW n, NEW set, Listing(s, n, set, c),
         NEW i \in 0 .. (n - 1), NEW r \in Record, r.address = s[i].address
  PROVE  /\ Listing(Put(s, i, r), n, set, c)
         /\ ByAddress(Put(s, i, r), n, set)
              = [ByAddress(s, n, set) EXCEPT ![r.address] = r.lamports]
<1> DEFINE t == Put(s, i, r)
<1>1. s \in Data(c) /\ n \in Nat /\ n <= c /\ i \in 0 .. (c - 1) /\ set \subseteq Addresses
      /\ r.address \in Addresses
  BY DEF Listing, Record
<1>2. t \in Data(c)
  BY <1>1 DEF Put, Data
<1>3. \A k \in 0 .. (n - 1) : t[k] = IF k = i THEN r ELSE s[k]
  BY <1>1 DEF Put, Data
<1>4. \A k \in 0 .. (n - 1) : t[k] \in Record /\ t[k].address = s[k].address
  BY <1>3 DEF Listing
<1>5. Listing(t, n, set, c)
  <2> HIDE DEF t
  <2>1. /\ \A k \in 0 .. (n - 1) : t[k].address \in set
        /\ \A a \in set : \E k \in 0 .. (n - 1) : t[k].address = a
    BY <1>4 DEF Listing
  <2>2. set = {t[k].address : k \in 0 .. (n - 1)}
    BY <2>1, Zenon
  <2> QED BY <1>2, <1>4, <2>2 DEF Listing
<1> DEFINE g == [ByAddress(s, n, set) EXCEPT ![r.address] = r.lamports]
<1>6. /\ g = [a \in Addresses |-> g[a]] /\ g[r.address] = r.lamports
      /\ \A a \in Addresses : a # r.address => g[a] = ByAddress(s, n, set)[a]
  <2>1. ByAddress(s, n, set) = [a \in Addresses |-> ByAddress(s, n, set)[a]]
    BY DEF ByAddress
  <2> HIDE DEF ByAddress
  <2> QED BY <1>1, <2>1, Replaced
<1>7. \A k \in 0 .. (n - 1) : g[t[k].address] = t[k].lamports
  <2> SUFFICES ASSUME NEW k \in 0 .. (n - 1) PROVE g[t[k].address] = t[k].lamports
    OBVIOUS
  <2>1. CASE k = i
    BY <1>3, <1>6, <2>1
  <2>2. CASE k # i
    <3>1. t[k] = s[k] /\ s[k].address \in Addresses /\ s[k].address # r.address
      BY <1>3, <2>2 DEF Listing, Record
    <3>2. ByAddress(s, n, set)[s[k].address] = s[k].lamports
      BY ByAddressAt
    <3> QED BY <1>6, <3>1, <3>2
  <2> QED BY <2>1, <2>2
<1>8. \A a \in Addresses \ set : g[a] = -1
  <2>1. r.address \in set
    BY ByAddressAt
  <2> QED BY <1>6, <2>1 DEF ByAddress
<1> HIDE DEF g, t
<1>9. ByAddress(t, n, set) = g
  BY <1>5, <1>6, <1>7, <1>8, ByAddressIs
<1> QED BY <1>5, <1>9 DEF g, t

LEMMA WithoutListing ==
  ASSUME NEW c \in Nat, NEW s, NEW n, NEW set, Listing(s, n, set, c),
         NEW i \in 0 .. (n - 1), NEW z, s[i].address = z
  PROVE  /\ Listing(Without(s, n, i), n - 1, set \ {z}, c)
         /\ ByAddress(Without(s, n, i), n - 1, set \ {z})
              = [ByAddress(s, n, set) EXCEPT ![z] = -1]
<1> DEFINE t == Without(s, n, i)
           m == n - 1
<1>1. s \in Data(c) /\ n \in Nat /\ n <= c /\ i \in 0 .. (c - 1) /\ set \subseteq Addresses
      /\ m \in 0 .. c /\ m \in 0 .. (n - 1) /\ z \in set /\ z \in Addresses
  BY DEF Listing, Record
<1>2. t \in Data(c)
  BY <1>1 DEF Without, Data
<1>3. \A k \in 0 .. (m - 1) : t[k] = IF k = i THEN s[m] ELSE s[k]
  BY <1>1 DEF Without, Data
<1>4. /\ \A k \in 0 .. (m - 1) : k \in 0 .. (n - 1) /\ k # m
      /\ \A k \in 0 .. (n - 1) : k = m \/ k \in 0 .. (m - 1)
  BY <1>1
<1>5. \A k \in 0 .. (n - 1) : s[k] \in Record /\ s[k].address \in set
  BY DEF Listing
<1>6. \A k, l \in 0 .. (n - 1) : s[k].address = s[l].address => k = l
  BY DEF Listing
<1>7. \A k \in 0 .. (m - 1) : t[k] \in Record
  BY <1>1, <1>3, <1>4, <1>5
<1>8. set \ {z} = {t[k].address : k \in 0 .. (m - 1)}
  <2>1. \A k \in 0 .. (m - 1) : t[k].address \in set \ {z}
    BY <1>1, <1>3, <1>4, <1>5, <1>6
  <2>2. \A a \in set \ {z} : \E k \in 0 .. (m - 1) : t[k].address = a
    <3> SUFFICES ASSUME NEW a \in set, a # z
                 PROVE  \E k \in 0 .. (m - 1) : t[k].address = a
      OBVIOUS
    <3>1. PICK k \in 0 .. (n - 1) : s[k].address = a
      BY DEF Listing
    <3>2. k # i
      BY <3>1
    <3>3. CASE k = m
      <4>1. i \in 0 .. (m - 1)
        BY <1>4, <3>2, <3>3
      <4> QED BY <1>3, <3>1, <3>3, <4>1
    <3>4. CASE k \in 0 .. (m - 1)
      BY <1>3, <3>1, <3>2, <3>4
    <3> QED BY <1>4, <3>3, <3>4
  <2> HIDE DEF t, m
  <2> QED BY <2>1, <2>2, ImageIs
<1>9. \A k, l \in 0 .. (m - 1) : t[k].address = t[l].address => k = l
  BY <1>1, <1>3, <1>4, <1>6
<1>10. Listing(t, m, set \ {z}, c)
  <2> HIDE DEF t, m
  <2> QED BY <1>1, <1>2, <1>7, <1>8, <1>9 DEF Listing
<1> DEFINE g == [ByAddress(s, n, set) EXCEPT ![z] = -1]
<1>11. /\ g = [a \in Addresses |-> g[a]] /\ g[z] = -1
       /\ \A a \in Addresses : a # z => g[a] = ByAddress(s, n, set)[a]
  <2>1. ByAddress(s, n, set) = [a \in Addresses |-> ByAddress(s, n, set)[a]]
    BY DEF ByAddress
  <2> HIDE DEF ByAddress
  <2> QED BY <1>1, <2>1, Replaced
<1>12. \A k \in 0 .. (m - 1) : g[t[k].address] = t[k].lamports
  <2> SUFFICES ASSUME NEW k \in 0 .. (m - 1) PROVE g[t[k].address] = t[k].lamports
    OBVIOUS
  <2>1. PICK l \in 0 .. (n - 1) : t[k] = s[l]
    BY <1>1, <1>3, <1>4
  <2>2. t[k].address # z
    BY <1>8
  <2>3. ByAddress(s, n, set)[s[l].address] = s[l].lamports /\ s[l].address \in Addresses
    BY <1>1, <1>5, ByAddressAt
  <2> HIDE DEF g, t
  <2> QED BY <1>11, <2>1, <2>2, <2>3
<1>13. \A a \in Addresses \ (set \ {z}) : g[a] = -1
  BY <1>11 DEF ByAddress
<1> HIDE DEF g, t, m
<1>14. ByAddress(t, m, set \ {z}) = g
  <2>1. m \in Nat
    BY <1>1
  <2> QED BY <1>10, <1>11, <1>12, <1>13, ByAddressIs
<1> QED BY <1>10, <1>14 DEF g, t, m
-----------------------------------------------------------------------------
(* The state is a listing. *)

LEMMA SizeOf ==
  ASSUME NEW c \in Nat, NEW s \in Data(c)
  PROVE  Cardinality(DOMAIN s) = c
<1>1. Cardinality(0 .. (c - 1)) = IF 0 > c - 1 THEN 0 ELSE (c - 1) - 0 + 1
  BY FS_Interval
<1>2. DOMAIN s = 0 .. (c - 1)
  BY DEF Data
<1> QED BY <1>1, <1>2

LEMMA StateListing ==
  ASSUME IInv
  PROVE  /\ capacity \in 0 .. MaxCapacity /\ capacity \in Nat
         /\ Listing(slots, count, flagged, capacity)
         /\ records = ByAddress(slots, count, flagged)
<1>1. PICK c \in 0 .. MaxCapacity : count <= c /\ slots \in Data(c)
  BY DEF IInv, ListTypeOK
<1>2. c \in Nat
  BY ListAssumption
<1>3. capacity = c
  BY <1>1, <1>2, SizeOf DEF capacity
<1>4. count \in 0 .. c
  BY <1>1, <1>2 DEF IInv, ListTypeOK
<1>5. Listing(slots, count, flagged, c)
  BY <1>1, <1>4 DEF IInv, ListTypeOK, ListedOnce, Recorded, Listing
<1>6. flagged = Recorded
  BY DEF IInv, ListedOnce
<1>7. records = ByAddress(slots, count, flagged)
  BY <1>6 DEF records, ByAddress, IndexOf
<1> QED BY <1>2, <1>3, <1>5, <1>7

LEMMA ListingState ==
  ASSUME IInv, Listing(slots', count', flagged', capacity)
  PROVE  /\ IInv' /\ capacity' = capacity
         /\ records' = ByAddress(slots', count', flagged')
<1>1. capacity \in 0 .. MaxCapacity /\ capacity \in Nat
  BY StateListing
<1>2. slots' \in Data(capacity) /\ count' \in Nat /\ count' <= capacity
  BY <1>1 DEF Listing
<1>3. ListTypeOK'
  BY <1>1, <1>2 DEF ListTypeOK, Listing, Data
<1>4. ListedOnce'
  BY DEF ListedOnce, Recorded, Listing
<1>5. capacity' = capacity
  <2>1. Cardinality(DOMAIN slots') = capacity
    BY <1>1, <1>2, SizeOf
  <2> QED BY <2>1 DEF capacity
<1>6. flagged' = Recorded'
  BY <1>4 DEF ListedOnce
<1>7. records' = ByAddress(slots', count', flagged')
  BY <1>6 DEF records, ByAddress, IndexOf
<1> QED BY <1>3, <1>4, <1>5, <1>7 DEF IInv

(* As many addresses are flagged as there are records. *)
LEMMA Counted ==
  ASSUME IInv
  PROVE  IsFiniteSet(flagged) /\ Cardinality(flagged) = count
<1> DEFINE N == 0 .. (count - 1)
           f == [i \in N |-> slots[i].address]
<1>1. count \in Nat /\ IsFiniteSet(N) /\ Cardinality(N) = count
  <2>1. count \in Nat
    BY DEF IInv, ListTypeOK
  <2>2. IsFiniteSet(N) /\ Cardinality(N) = IF 0 > count - 1 THEN 0 ELSE (count - 1) - 0 + 1
    BY <2>1, FS_Interval
  <2> QED BY <2>1, <2>2
<1>2. f \in Surjection(N, flagged)
  BY DEF IInv, ListedOnce, Recorded, Surjection
<1>3. f \in Injection(N, flagged)
  BY DEF IInv, ListedOnce, Recorded, Injection, IsInjective
<1> QED BY <1>1, <1>2, <1>3, FS_Surjection

(* What the store sees. *)
LEMMA StoreState ==
  ASSUME IInv
  PROVE  /\ records = [a \in Addresses |-> records[a]]
         /\ \A a \in flagged : records[a] \in Nat
         /\ \A a \in Addresses \ flagged : records[a] = -1
         /\ Store!Listed = flagged
         /\ HasRoom => Store!HasRoom
<1>1. capacity \in Nat /\ Listing(slots, count, flagged, capacity)
      /\ records = ByAddress(slots, count, flagged)
  BY StateListing
<1>2. \A a \in flagged : records[a] \in Nat
  <2> SUFFICES ASSUME NEW a \in flagged PROVE records[a] \in Nat
    OBVIOUS
  <2>1. PICK i \in 0 .. (count - 1) : slots[i].address = a
    BY <1>1 DEF Listing
  <2>2. slots[i] \in Record /\ records[a] = slots[i].lamports
    BY <1>1, <2>1, ByAddressAt
  <2> QED BY <2>2 DEF Record
<1>3. \A a \in Addresses \ flagged : records[a] = -1
  BY <1>1 DEF ByAddress
<1>4. flagged \subseteq Addresses
  BY <1>1 DEF Listing
<1>5. Store!Listed = flagged
  BY <1>2, <1>3, <1>4 DEF Store!Listed, Store!NotListed
<1>6. HasRoom => Store!HasRoom
  <2>1. Store!Cardinality(flagged) = Cardinality(flagged)
    BY DEF Store!Cardinality, Cardinality
  <2> QED BY <1>5, <2>1, Counted DEF HasRoom, Store!HasRoom
<1>7. records = [a \in Addresses |-> records[a]]
  BY DEF records
<1> QED BY <1>2, <1>3, <1>5, <1>6, <1>7
-----------------------------------------------------------------------------
(* The initial states. *)
LEMMA InitHolds == Init => IInv /\ Store!Init
<1> SUFFICES ASSUME Init PROVE IInv /\ Store!Init
  OBVIOUS
<1>1. PICK c \in 0 .. MaxCapacity : slots = [i \in 0 .. (c - 1) |-> Blank]
  BY DEF Init
<1>2. slots \in Data(c)
  BY <1>1 DEF Data
<1>3. count = 0 /\ flagged = {} /\ 0 .. (count - 1) = {}
  BY DEF Init
<1>4. 0 <= c
  BY ListAssumption
<1>5. IInv
  BY <1>2, <1>3, <1>4 DEF IInv, ListTypeOK, ListedOnce, Recorded
<1>6. capacity \in Nat
  BY <1>5, StateListing
<1>7. records = [a \in Addresses |-> -1]
  <2>1. Recorded = {}
    BY <1>3 DEF Recorded
  <2> QED BY <2>1 DEF records
<1> QED BY <1>5, <1>6, <1>7 DEF Store!Init, Store!NotListed

(* A step that changes the record of a, or of a and b, and keeps the account. *)
LEMMA OnlyOne ==
  ASSUME IInv, NEW a \in Addresses, NEW v, capacity' = capacity,
         records' = [records EXCEPT ![a] = v]
  PROVE  records'[a] = v /\ Store!OnlyOf({a})
<1>1. records = [x \in Addresses |-> records[x]]
  BY StoreState
<1>2. /\ records' = [x \in Addresses |-> records'[x]] /\ records'[a] = v
      /\ \A x \in Addresses : x # a => records'[x] = records[x]
  BY <1>1, Replaced
<1> QED BY <1>2, Zenon DEF Store!OnlyOf

LEMMA OnlyTwo ==
  ASSUME IInv, NEW a \in Addresses, NEW b \in Addresses, a # b, NEW v, NEW w,
         capacity' = capacity,
         records' = [[records EXCEPT ![a] = v] EXCEPT ![b] = w]
  PROVE  records'[a] = v /\ records'[b] = w /\ Store!OnlyOf({a, b})
<1> DEFINE g == [records EXCEPT ![a] = v]
<1>1. records = [x \in Addresses |-> records[x]]
  BY StoreState
<1>2. /\ g = [x \in Addresses |-> g[x]] /\ g[a] = v
      /\ \A x \in Addresses : x # a => g[x] = records[x]
  BY <1>1, Replaced
<1> HIDE DEF g
<1>3. records' = [g EXCEPT ![b] = w]
  BY DEF g
<1>4. /\ records' = [x \in Addresses |-> records'[x]] /\ records'[b] = w
      /\ \A x \in Addresses : x # b => records'[x] = g[x]
  BY <1>2, <1>3, Replaced
<1> QED BY <1>2, <1>4, Zenon DEF Store!OnlyOf
-----------------------------------------------------------------------------
(* The actions: each keeps the invariants and is a step of the store. *)

LEMMA AddStep ==
  ASSUME IInv, NEW a \in Addresses, NEW n \in Balances, Add(a, n)
  PROVE  IInv' /\ Store!Add(a)
<1> DEFINE r == NewRecord(a, n)
<1>1. capacity \in Nat /\ Listing(slots, count, flagged, capacity)
      /\ records = ByAddress(slots, count, flagged)
  BY StateListing
<1>2. n \in Nat /\ r \in Record /\ r.address = a /\ r.lamports = n
  BY ListAssumption DEF NewRecord, Record
<1>3. /\ a \notin flagged /\ count < capacity /\ slots' = Pushed(slots, count, r)
      /\ count' = count + 1 /\ flagged' = flagged \cup {a}
  BY DEF Add, HasRoom
<1>4. /\ Listing(slots', count', flagged', capacity)
      /\ ByAddress(slots', count', flagged') = [records EXCEPT ![a] = n]
  <2> HIDE DEF r
  <2> QED BY <1>1, <1>2, <1>3, PushedListing
<1>5. IInv' /\ capacity' = capacity /\ records' = [records EXCEPT ![a] = n]
  BY <1>4, ListingState
<1>6. records'[a] = n /\ Store!OnlyOf({a})
  BY <1>5, OnlyOne
<1>7. a \notin Store!Listed /\ Store!HasRoom
  BY <1>3, StoreState DEF HasRoom
<1> QED BY <1>2, <1>5, <1>6, <1>7 DEF Store!Add

LEMMA UpdateStep ==
  ASSUME IInv, NEW i \in Indexes, NEW a \in Addresses, NEW n \in Balances, Update(i, a, n)
  PROVE  IInv' /\ Store!Update(a)
<1> DEFINE r == NewRecord(a, n)
<1>1. capacity \in Nat /\ Listing(slots, count, flagged, capacity)
      /\ records = ByAddress(slots, count, flagged)
  BY StateListing
<1>2. n \in Nat /\ r \in Record /\ r.address = a /\ r.lamports = n
  BY ListAssumption DEF NewRecord, Record
<1>3. /\ i < count /\ slots[i].address = a /\ slots' = Put(slots, i, r)
      /\ count' = count /\ flagged' = flagged
  BY DEF Update, FoundAt
<1>4. i \in 0 .. (count - 1)
  BY <1>1, <1>3, ListAssumption DEF Listing, Indexes
<1>5. /\ Listing(slots', count', flagged', capacity)
      /\ ByAddress(slots', count', flagged') = [records EXCEPT ![a] = n]
  <2> HIDE DEF r
  <2> QED BY <1>1, <1>2, <1>3, <1>4, PutListing
<1>6. IInv' /\ capacity' = capacity /\ records' = [records EXCEPT ![a] = n]
  BY <1>5, ListingState
<1>7. records'[a] = n /\ Store!OnlyOf({a})
  BY <1>6, OnlyOne
<1>8. a \in Store!Listed
  BY <1>1, <1>3, <1>4, ByAddressAt, StoreState
<1> QED BY <1>2, <1>6, <1>7, <1>8 DEF Store!Update

LEMMA RemoveStep ==
  ASSUME IInv, NEW i \in Indexes, NEW a \in Addresses, Remove(i, a)
  PROVE  IInv' /\ Store!Remove(a)
<1>1. capacity \in Nat /\ Listing(slots, count, flagged, capacity)
      /\ records = ByAddress(slots, count, flagged)
  BY StateListing
<1>2. /\ i < count /\ slots[i].address = a /\ slots' = Without(slots, count, i)
      /\ count' = count - 1 /\ flagged' = flagged \ {a}
  BY DEF Remove, FoundAt
<1>3. i \in 0 .. (count - 1)
  BY <1>1, <1>2, ListAssumption DEF Listing, Indexes
<1>4. /\ Listing(slots', count', flagged', capacity)
      /\ ByAddress(slots', count', flagged') = [records EXCEPT ![a] = -1]
  BY <1>1, <1>2, <1>3, WithoutListing
<1>5. IInv' /\ capacity' = capacity /\ records' = [records EXCEPT ![a] = -1]
  BY <1>4, ListingState
<1>6. records'[a] = -1 /\ Store!OnlyOf({a})
  BY <1>5, OnlyOne
<1>7. a \in Store!Listed
  BY <1>1, <1>2, <1>3, ByAddressAt, StoreState
<1> QED BY <1>5, <1>6, <1>7 DEF Store!Remove, Store!NotListed

LEMMA SplitStep ==
  ASSUME IInv, NEW i \in Indexes, NEW a \in Addresses, NEW b \in Addresses,
         NEW n \in Balances, Split(i, a, b, n)
  PROVE  IInv' /\ Store!Split(a, b)
<1> DEFINE r == NewRecord(b, n)
           x == slots[i].lamports
           q == NewRecord(a, x - n)
           t == Pushed(slots, count, r)
           set == flagged \cup {b}
<1>1. capacity \in Nat /\ Listing(slots, count, flagged, capacity)
      /\ records = ByAddress(slots, count, flagged)
  BY StateListing
<1>2. /\ i < count /\ slots[i].address = a /\ n <= x
      /\ b \notin flagged /\ count < capacity
      /\ slots' = Put(t, i, q) /\ count' = count + 1 /\ flagged' = set
  BY DEF Split, FoundAt, HasRoom
<1>3. i \in 0 .. (count - 1) /\ i \in 0 .. ((count + 1) - 1) /\ i # count /\ count \in Nat
  BY <1>1, <1>2, ListAssumption DEF Listing, Indexes
<1>4. /\ slots[i] \in Record /\ a \in flagged /\ records[a] = x
  BY <1>1, <1>2, <1>3, ByAddressAt
<1>5. n \in Nat /\ x \in Nat /\ x - n \in Nat /\ a # b
  BY <1>2, <1>4, ListAssumption DEF Record
<1>6. /\ r \in Record /\ r.address = b /\ r.lamports = n
      /\ q \in Record /\ q.address = a /\ q.lamports = x - n
  BY <1>5 DEF NewRecord, Record
<1>7. t[i].address = a
  BY <1>1, <1>2, <1>3 DEF Pushed, Listing, Data
<1> HIDE DEF r, q, x, set
<1>8. /\ Listing(t, count + 1, set, capacity)
      /\ ByAddress(t, count + 1, set) = [records EXCEPT ![b] = n]
  BY <1>1, <1>2, <1>6, PushedListing DEF set
<1> HIDE DEF t
<1>9. /\ Listing(slots', count', flagged', capacity)
      /\ ByAddress(slots', count', flagged')
           = [[records EXCEPT ![b] = n] EXCEPT ![a] = x - n]
  <2>1. /\ Listing(Put(t, i, q), count + 1, set, capacity)
        /\ ByAddress(Put(t, i, q), count + 1, set)
             = [ByAddress(t, count + 1, set) EXCEPT ![q.address] = q.lamports]
    BY <1>1, <1>3, <1>6, <1>7, <1>8, PutListing
  <2> QED BY <1>2, <1>6, <1>8, <2>1, Zenon
<1>10. /\ IInv' /\ capacity' = capacity
       /\ records' = [[records EXCEPT ![b] = n] EXCEPT ![a] = x - n]
  BY <1>9, ListingState
<1>11. records'[b] = n /\ records'[a] = x - n /\ Store!OnlyOf({b, a})
  BY <1>5, <1>10, OnlyTwo
<1>12. a \in Store!Listed /\ b \notin Store!Listed /\ Store!HasRoom
  BY <1>2, <1>4, StoreState DEF HasRoom
<1>13. {b, a} = {a, b}
  OBVIOUS
<1>14. records'[a] + records'[b] = records[a]
  BY <1>4, <1>5, <1>11
<1> QED BY <1>5, <1>10, <1>11, <1>12, <1>13, <1>14 DEF Store!Split

LEMMA MergeStep ==
  ASSUME IInv, NEW i \in Indexes, NEW j \in Indexes, NEW a \in Addresses,
         NEW b \in Addresses, NEW extra \in ExtraDelegated, Merge(i, a, j, b, extra)
  PROVE  /\ IInv' /\ Store!Merge(a, b)
         /\ records'[a] = records[a] + records[b] + extra
<1> DEFINE x == slots[i].lamports + slots[j].lamports + extra
           q == NewRecord(a, x)
           t == Put(slots, i, q)
<1>1. capacity \in Nat /\ Listing(slots, count, flagged, capacity)
      /\ records = ByAddress(slots, count, flagged)
  BY StateListing
<1>2. /\ i < count /\ slots[i].address = a /\ j < count /\ slots[j].address = b /\ a # b
      /\ slots' = Without(t, count, j) /\ count' = count - 1 /\ flagged' = flagged \ {b}
  BY DEF Merge, FoundAt, Merged
<1>3. i \in 0 .. (count - 1) /\ j \in 0 .. (count - 1)
  BY <1>1, <1>2, ListAssumption DEF Listing, Indexes
<1>4. /\ slots[i] \in Record /\ a \in flagged /\ records[a] = slots[i].lamports
      /\ slots[j] \in Record /\ b \in flagged /\ records[b] = slots[j].lamports
  BY <1>1, <1>2, <1>3, ByAddressAt
<1>5. x = records[a] + records[b] + extra /\ x \in Nat /\ extra \in {0, StakeRent}
  BY <1>4, ListAssumption DEF Record, ExtraDelegated
<1>6. q \in Record /\ q.address = a /\ q.lamports = x
  BY <1>5 DEF NewRecord, Record
<1>7. t[j].address = b
  <2>1. i # j
    BY <1>2
  <2>2. t[j] = slots[j]
    BY <1>1, <1>3, <2>1 DEF Put, Listing, Data
  <2> QED BY <1>2, <2>2
<1> HIDE DEF q, x
<1>8. /\ Listing(t, count, flagged, capacity)
      /\ ByAddress(t, count, flagged) = [records EXCEPT ![a] = x]
  BY <1>1, <1>2, <1>3, <1>6, PutListing
<1> HIDE DEF t
<1>9. /\ Listing(slots', count', flagged', capacity)
      /\ ByAddress(slots', count', flagged')
           = [[records EXCEPT ![a] = x] EXCEPT ![b] = -1]
  <2>1. /\ Listing(Without(t, count, j), count - 1, flagged \ {b}, capacity)
        /\ ByAddress(Without(t, count, j), count - 1, flagged \ {b})
             = [ByAddress(t, count, flagged) EXCEPT ![b] = -1]
    <3>1. capacity \in Nat
      BY <1>1
    <3>2. j \in 0 .. (count - 1)
      BY <1>3
    <3>3. Listing(t, count, flagged, capacity)
      BY <1>8
    <3> HIDE DEF capacity
    <3> QED BY <1>7, <3>1, <3>2, <3>3, WithoutListing
  <2> QED BY <1>2, <1>8, <2>1, Zenon
<1>10. /\ IInv' /\ capacity' = capacity
       /\ records' = [[records EXCEPT ![a] = x] EXCEPT ![b] = -1]
  BY <1>9, ListingState
<1>11. records'[a] = x /\ records'[b] = -1 /\ Store!OnlyOf({a, b})
  <2>1. a # b
    BY <1>2
  <2> QED BY <1>10, <2>1, OnlyTwo
<1>12. a \in Store!Listed /\ b \in Store!Listed
  BY <1>4, StoreState
<1>13. records'[a] = records[a] + records[b] + extra
  BY <1>5, <1>11
<1> QED BY <1>2, <1>5, <1>10, <1>11, <1>12, <1>13 DEF Store!Merge, Store!NotListed

LEMMA CreateCanonicalStep ==
  ASSUME IInv, NEW j \in Indexes, NEW a \in Addresses, NEW b \in Addresses,
         CreateCanonical(j, b, a)
  PROVE  IInv' /\ Store!Move(b, a)
<1> DEFINE x == slots[j].lamports
           q == NewRecord(a, x)
           t == Pushed(slots, count, q)
           set == flagged \cup {a}
<1>1. capacity \in Nat /\ Listing(slots, count, flagged, capacity)
      /\ records = ByAddress(slots, count, flagged)
  BY StateListing
<1>2. /\ j < count /\ slots[j].address = b /\ a \notin flagged /\ count < capacity
      /\ slots' = Without(t, count + 1, j) /\ count' = count /\ flagged' = set \ {b}
  BY DEF CreateCanonical, FoundAt, HasRoom
<1>3. /\ j \in 0 .. (count - 1) /\ j \in 0 .. ((count + 1) - 1) /\ j # count
      /\ count \in Nat /\ (count + 1) - 1 = count
  BY <1>1, <1>2, ListAssumption DEF Listing, Indexes
<1>4. slots[j] \in Record /\ b \in flagged /\ records[b] = x
  BY <1>1, <1>2, <1>3, ByAddressAt
<1>5. x \in Nat /\ a # b
  BY <1>2, <1>4 DEF Record
<1>6. q \in Record /\ q.address = a /\ q.lamports = x
  BY <1>5 DEF NewRecord, Record
<1>7. t[j].address = b
  BY <1>1, <1>2, <1>3 DEF Pushed, Listing, Data
<1> HIDE DEF q, x, set
<1>8. /\ Listing(t, count + 1, set, capacity)
      /\ ByAddress(t, count + 1, set) = [records EXCEPT ![a] = x]
  BY <1>1, <1>2, <1>6, PushedListing DEF set
<1> HIDE DEF t
<1>9. /\ Listing(slots', count', flagged', capacity)
      /\ ByAddress(slots', count', flagged')
           = [[records EXCEPT ![a] = x] EXCEPT ![b] = -1]
  <2>1. /\ Listing(Without(t, count + 1, j), (count + 1) - 1, set \ {b}, capacity)
        /\ ByAddress(Without(t, count + 1, j), (count + 1) - 1, set \ {b})
             = [ByAddress(t, count + 1, set) EXCEPT ![b] = -1]
    <3>1. capacity \in Nat
      BY <1>1
    <3>2. j \in 0 .. ((count + 1) - 1)
      BY <1>3
    <3> QED BY <1>7, <1>8, <3>1, <3>2, WithoutListing
  <2> QED BY <1>2, <1>3, <1>8, <2>1, Zenon
<1>10. /\ IInv' /\ capacity' = capacity
       /\ records' = [[records EXCEPT ![a] = x] EXCEPT ![b] = -1]
  BY <1>9, ListingState
<1>11. records'[a] = x /\ records'[b] = -1 /\ Store!OnlyOf({a, b})
  BY <1>5, <1>10, OnlyTwo
<1>12. b \in Store!Listed /\ a \notin Store!Listed /\ Store!HasRoom
  BY <1>2, <1>4, StoreState DEF HasRoom
<1> QED BY <1>4, <1>10, <1>11, <1>12 DEF Store!Move, Store!NotListed

LEMMA ReallocStep ==
  ASSUME IInv, NEW c \in 0 .. MaxCapacity, Realloc(c)
  PROVE  IInv' /\ Store!Resize
<1>1. capacity \in Nat /\ Listing(slots, count, flagged, capacity)
  BY StateListing
<1>2. /\ c >= count /\ count' = count /\ flagged' = flagged
      /\ slots' = [i \in 0 .. (c - 1) |-> IF i < capacity THEN slots[i] ELSE Blank]
  BY DEF Realloc, Fits
<1>3. c \in Nat /\ count \in 0 .. c /\ count \in 0 .. capacity
  BY <1>1, <1>2, ListAssumption DEF Listing
<1>4. slots' \in Data(c)
  BY <1>1, <1>2, <1>3 DEF Data, Listing
<1>5. \A i \in 0 .. (count - 1) : slots'[i] = slots[i]
  <2>1. \A i \in 0 .. (count - 1) : i \in 0 .. (c - 1) /\ i < capacity
    BY <1>1, <1>3
  <2> HIDE DEF capacity
  <2> QED BY <1>2, <2>1
<1>6. ListTypeOK'
  <2>1. \A i \in 0 .. (count - 1) : slots'[i] \in Record
    BY <1>1, <1>5 DEF Listing
  <2> QED BY <1>1, <1>2, <1>3, <1>4, <2>1 DEF ListTypeOK, Listing, Data
<1>7. ListedOnce'
  <2>1. \A i, j \in 0 .. (count - 1) : slots'[i].address = slots'[j].address => i = j
    BY <1>1, <1>5 DEF Listing
  <2>2. flagged = {slots'[i].address : i \in 0 .. (count - 1)}
    BY <1>1, <1>5, Zenon DEF Listing
  <2> QED BY <1>2, <2>1, <2>2 DEF ListedOnce, Recorded
<1>8. records' = records
  <2>1. \A a \in flagged : IndexOf(a) \in 0 .. (count - 1)
    BY <1>1 DEF IndexOf, Listing
  <2>2. \A a \in flagged : IndexOf(a)' = IndexOf(a)
    <3> SUFFICES ASSUME NEW a \in flagged PROVE IndexOf(a)' = IndexOf(a)
      OBVIOUS
    <3>1. \A i \in 0 .. (count - 1) : slots'[i].address = a <=> slots[i].address = a
      BY <1>5
    <3>2. PICK i \in 0 .. (count - 1) : slots[i].address = a
      BY <1>1 DEF Listing
    <3>3. /\ IndexOf(a) \in 0 .. (count - 1) /\ slots[IndexOf(a)].address = a
      BY <3>2 DEF IndexOf
    <3>4. /\ IndexOf(a)' \in 0 .. (count - 1) /\ slots'[IndexOf(a)'].address = a
      BY <1>2, <3>1, <3>2 DEF IndexOf
    <3> QED BY <1>1, <3>1, <3>3, <3>4 DEF Listing
  <2>3. flagged = Recorded /\ flagged' = Recorded'
    BY <1>7 DEF IInv, ListedOnce
  <2> HIDE DEF IndexOf
  <2>4. \A a \in flagged : slots'[IndexOf(a)'].lamports = slots[IndexOf(a)].lamports
    BY <1>5, <2>1, <2>2
  <2>5. /\ records = [a \in Addresses |->
                       IF a \in flagged THEN slots[IndexOf(a)].lamports ELSE -1]
        /\ records' = [a \in Addresses |->
                        IF a \in flagged THEN slots'[IndexOf(a)'].lamports ELSE -1]
    BY <1>2, <2>3 DEF records
  <2> QED BY <2>4, <2>5
<1>9. capacity' = c
  <2>1. Cardinality(DOMAIN slots') = c
    BY <1>3, <1>4, SizeOf
  <2> QED BY <2>1 DEF capacity
<1>10. capacity' >= Store!Cardinality(Store!Listed)
  <2>1. Store!Cardinality(flagged) = Cardinality(flagged)
    BY DEF Store!Cardinality, Cardinality
  <2> QED BY <1>2, <1>9, <2>1, Counted, StoreState
<1> QED BY <1>3, <1>6, <1>7, <1>8, <1>9, <1>10 DEF IInv, Store!Resize

(* What one step does. *)
LEMMA Stepwise ==
  ASSUME IInv, [Next]_vars
  PROVE  IInv' /\ [Store!Next]_(<<records, capacity>>)
<1>1. ASSUME NEW a \in Addresses, NEW n \in Balances, Add(a, n)
      PROVE  IInv' /\ Store!Next
  BY <1>1, AddStep DEF Store!Next
<1>2. ASSUME NEW i \in Indexes, NEW a \in Addresses, NEW n \in Balances, Update(i, a, n)
      PROVE  IInv' /\ Store!Next
  BY <1>2, UpdateStep DEF Store!Next
<1>3. ASSUME NEW i \in Indexes, NEW a \in Addresses, Remove(i, a)
      PROVE  IInv' /\ Store!Next
  BY <1>3, RemoveStep DEF Store!Next
<1>4. ASSUME NEW i \in Indexes, NEW a \in Addresses, NEW b \in Addresses,
             NEW n \in Balances, Split(i, a, b, n)
      PROVE  IInv' /\ Store!Next
  BY <1>4, SplitStep DEF Store!Next
<1>5. ASSUME NEW i \in Indexes, NEW j \in Indexes, NEW a \in Addresses,
             NEW b \in Addresses, NEW extra \in ExtraDelegated, Merge(i, a, j, b, extra)
      PROVE  IInv' /\ Store!Next
  BY <1>5, MergeStep DEF Store!Next
<1>6. ASSUME NEW j \in Indexes, NEW a \in Addresses, NEW b \in Addresses,
             CreateCanonical(j, b, a)
      PROVE  IInv' /\ Store!Next
  BY <1>6, CreateCanonicalStep DEF Store!Next
<1>7. ASSUME NEW c \in 0 .. MaxCapacity, Realloc(c)
      PROVE  IInv' /\ Store!Next
  BY <1>7, ReallocStep DEF Store!Next
<1>8. CASE UNCHANGED vars
  <2>1. IInv'
    BY <1>8 DEF vars, IInv, ListTypeOK, ListedOnce, Recorded, Data
  <2>2. UNCHANGED <<records, capacity>>
    BY <1>8 DEF vars, records, Recorded, IndexOf, capacity
  <2> QED BY <2>1, <2>2
<1> QED BY <1>1, <1>2, <1>3, <1>4, <1>5, <1>6, <1>7, <1>8 DEF Next

(* The list is well formed, whatever indexes the instructions are called     *)
(* with.                                                                     *)
THEOREM ListTypeCorrect == Spec => []ListTypeOK
<1>1. IInv /\ [Next]_vars => IInv'
  BY Stepwise
<1>2. IInv => ListTypeOK
  BY DEF IInv
<1> QED BY <1>1, <1>2, InitHolds, PTL DEF Spec

(* No address has two records, and none is lost while its flag is set.       *)
THEOREM ListedOnceAlways == Spec => []ListedOnce
<1>1. IInv /\ [Next]_vars => IInv'
  BY Stepwise
<1>2. IInv => ListedOnce
  BY DEF IInv
<1> QED BY <1>1, <1>2, InitHolds, PTL DEF Spec

(* The list implements a store of records found by address, in which there   *)
(* are no indexes.                                                           *)
THEOREM ListImplementsStore == Spec => ImplementsStore
<1>1. IInv /\ [Next]_vars => IInv' /\ [Store!Next]_(<<records, capacity>>)
  BY Stepwise
<1> QED BY <1>1, InitHolds, PTL DEF Spec, ImplementsStore, Store!Spec
-----------------------------------------------------------------------------
(* The lamports of the records in set, with none for the other addresses. *)
HeldBy(set, recs) == [a \in Addresses |-> IF a \in set THEN recs[a] ELSE 0]

LEMMA HeldTotal ==
  ASSUME NEW set, set \subseteq Addresses, NEW recs, \A a \in set : recs[a] \in Nat
  PROVE  /\ \A a \in Addresses : HeldBy(set, recs)[a] \in Nat
         /\ Total(set, recs) = Total(Addresses, HeldBy(set, recs))
<1>1. set \in SUBSET Addresses
  OBVIOUS
<1>2. /\ \A a \in set : recs[a] = HeldBy(set, recs)[a]
      /\ \A a \in Addresses \ set : HeldBy(set, recs)[a] = 0
      /\ \A a \in Addresses : HeldBy(set, recs)[a] \in Nat
  BY DEF HeldBy
<1> QED BY <1>1, <1>2, TotalOfPart

(* Lamports that pass between two records are kept, and d come in. *)
LEMMA KeptByTwo ==
  ASSUME IInv, IInv', NEW d \in Nat, NEW a \in Addresses, NEW b \in Addresses, a # b,
         Store!OnlyOf({a, b}), flagged \subseteq flagged' \cup {a, b},
         flagged' \subseteq flagged \cup {a, b},
         a \in flagged' => records'[a] \in Nat, b \in flagged' => records'[b] \in Nat,
         HeldBy(flagged', records')[a] + HeldBy(flagged', records')[b]
           = HeldBy(flagged, records)[a] + HeldBy(flagged, records)[b] + d
  PROVE  Total(Recorded', records') = Total(Recorded, records) + d
<1> DEFINE w == HeldBy(flagged, records)
           u == HeldBy(flagged', records')
<1>1. /\ flagged = Recorded /\ flagged \subseteq Addresses
      /\ flagged' = Recorded' /\ flagged' \subseteq Addresses
  BY DEF IInv, ListedOnce, ListTypeOK
<1>2. \A x \in flagged : records[x] \in Nat
  BY StoreState
<1>3. \A x \in Addresses \ {a, b} : records'[x] = records[x] /\ (x \in flagged' <=> x \in flagged)
  BY DEF Store!OnlyOf
<1>4. \A x \in flagged' : records'[x] \in Nat
  BY <1>1, <1>2, <1>3
<1>5. \A x \in Addresses \ {a, b} : u[x] = w[x]
  BY <1>3 DEF HeldBy
<1>6. /\ \A x \in Addresses : w[x] \in Nat
      /\ Total(flagged, records) = Total(Addresses, w)
  BY <1>1, <1>2, HeldTotal
<1>7. /\ \A x \in Addresses : u[x] \in Nat
      /\ Total(flagged', records') = Total(Addresses, u)
  BY <1>1, <1>4, HeldTotal
<1>8. u[a] + u[b] = w[a] + w[b] + d
  OBVIOUS
<1> HIDE DEF u, w
<1>9. IsFiniteSet(Addresses)
  BY ListAssumption
<1>10. Total(Addresses, u) = Total(Addresses, w) + u[a] - w[a] + u[b] - w[b]
  BY <1>5, <1>6, <1>7, <1>9, TotalChangeTwo
<1>11. Total(Addresses, w) \in Nat /\ u[a] \in Nat /\ w[a] \in Nat /\ u[b] \in Nat /\ w[b] \in Nat
  BY <1>6, <1>7, <1>9, TotalType
<1>12. Total(Addresses, u) = Total(Addresses, w) + d
  BY <1>8, <1>10, <1>11
<1> QED BY <1>1, <1>6, <1>7, <1>12

LEMMA RecordedTotalType ==
  ASSUME IInv
  PROVE  Total(Recorded, records) \in Nat
<1>1. flagged = Recorded /\ flagged \subseteq Addresses /\ \A x \in flagged : records[x] \in Nat
  BY StoreState DEF IInv, ListedOnce, ListTypeOK
<1>2. IsFiniteSet(flagged)
  BY <1>1, ListAssumption, FS_Subset
<1> QED BY <1>1, <1>2, TotalType

LEMMA MergeAddsExtra ==
  ASSUME IInv, NEW i \in Indexes, NEW j \in Indexes, NEW a \in Addresses, NEW b \in Addresses,
         NEW extra \in ExtraDelegated, Merge(i, a, j, b, extra)
  PROVE  Total(Recorded', records') = Total(Recorded, records) + extra
<1>1. /\ flagged \subseteq Addresses /\ Store!Listed = flagged
      /\ \A x \in flagged : records[x] \in Nat
  BY StoreState DEF IInv, ListTypeOK
<1>2. IInv' /\ Store!Merge(a, b) /\ flagged' = flagged \ {b}
  BY MergeStep DEF Merge
<1>3. /\ a \in flagged /\ b \in flagged /\ a # b
      /\ records'[a] = records[a] + records[b] + extra /\ Store!OnlyOf({a, b})
  BY <1>1, <1>2, MergeStep DEF Store!Merge
<1>4. records[a] \in Nat /\ records[b] \in Nat /\ records'[a] \in Nat /\ extra \in Nat
  BY <1>1, <1>3, ListAssumption DEF ExtraDelegated
<1>5. HeldBy(flagged', records')[a] + HeldBy(flagged', records')[b]
        = HeldBy(flagged, records)[a] + HeldBy(flagged, records)[b] + extra
  BY <1>2, <1>3, <1>4 DEF HeldBy
<1> QED BY <1>2, <1>3, <1>4, <1>5, KeptByTwo

LEMMA MoveKeepsLamports ==
  ASSUME IInv, NEW j \in Indexes, NEW a \in Addresses, NEW b \in Addresses,
         CreateCanonical(j, b, a)
  PROVE  Total(Recorded', records') = Total(Recorded, records)
<1>1. /\ flagged \subseteq Addresses /\ Store!Listed = flagged
      /\ \A x \in flagged : records[x] \in Nat
  BY StoreState DEF IInv, ListTypeOK
<1>2. IInv' /\ Store!Move(b, a) /\ flagged' = (flagged \cup {a}) \ {b}
  BY CreateCanonicalStep DEF CreateCanonical
<1>3. /\ b \in flagged /\ a \notin flagged /\ a # b
      /\ records'[a] = records[b] /\ Store!OnlyOf({a, b})
  BY <1>1, <1>2 DEF Store!Move
<1>4. records[b] \in Nat /\ records'[a] \in Nat
  BY <1>1, <1>3
<1>5. HeldBy(flagged', records')[a] + HeldBy(flagged', records')[b]
        = HeldBy(flagged, records)[a] + HeldBy(flagged, records)[b] + 0
  BY <1>2, <1>3, <1>4 DEF HeldBy
<1>6. Total(Recorded', records') = Total(Recorded, records) + 0
  BY <1>2, <1>3, <1>4, <1>5, KeptByTwo
<1> QED BY <1>6, RecordedTotalType

LEMMA SplitKeepsLamports ==
  ASSUME IInv, NEW i \in Indexes, NEW a \in Addresses, NEW b \in Addresses,
         NEW n \in Balances, Split(i, a, b, n)
  PROVE  Total(Recorded', records') = Total(Recorded, records)
<1>1. /\ flagged \subseteq Addresses /\ Store!Listed = flagged
      /\ \A x \in flagged : records[x] \in Nat
  BY StoreState DEF IInv, ListTypeOK
<1>2. IInv' /\ Store!Split(a, b) /\ flagged' = flagged \cup {b}
  BY SplitStep DEF Split
<1>3. /\ a \in flagged /\ b \notin flagged /\ a # b
      /\ records'[a] \in Nat /\ records'[b] \in Nat
      /\ records'[a] + records'[b] = records[a] /\ Store!OnlyOf({a, b})
  BY <1>1, <1>2 DEF Store!Split
<1>4. HeldBy(flagged', records')[a] + HeldBy(flagged', records')[b]
        = HeldBy(flagged, records)[a] + HeldBy(flagged, records)[b] + 0
  BY <1>1, <1>2, <1>3 DEF HeldBy
<1>5. Total(Recorded', records') = Total(Recorded, records) + 0
  BY <1>2, <1>3, <1>4, KeptByTwo
<1> QED BY <1>5, RecordedTotalType

(* Where records are split, moved or joined, whatever the indexes say, their *)
(* total stays, but for the extra lamports of a merge, which are those that  *)
(* the instruction adds to the validator's active balance.                   *)
THEOREM LamportsAlwaysKept == Spec => LamportsKept
<1> DEFINE Kept ==
      \A i, j \in 0 .. (count - 1), a, b \in Addresses :
        /\ \A extra \in ExtraDelegated :
             Merge(i, a, j, b, extra) =>
               Total(Recorded', records') = Total(Recorded, records) + extra
        /\ CreateCanonical(j, b, a) \/ (\E n \in Balances : Split(i, a, b, n)) =>
             Total(Recorded', records') = Total(Recorded, records)
<1>1. ASSUME IInv PROVE Kept
  <2>1. 0 .. (count - 1) \subseteq Indexes
    BY <1>1, ListAssumption DEF IInv, ListTypeOK, Indexes
  <2> QED BY <1>1, <2>1, MergeAddsExtra, MoveKeepsLamports, SplitKeepsLamports
<1>2. IInv => [Kept]_vars
  BY <1>1
<1>3. IInv /\ [Next]_vars => IInv'
  BY Stepwise
<1> QED BY <1>2, <1>3, InitHolds, PTL DEF Spec, LamportsKept
=============================================================================
