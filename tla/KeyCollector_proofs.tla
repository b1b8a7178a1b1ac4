------------------------ MODULE KeyCollector_proofs ------------------------
(***************************************************************************)
(* What holds of the key registry for every number of keys, locations,     *)
(* types, names and for every bound.                                       *)
(*                                                                         *)
(* refCnt[k] \in Nat, the part of TypeOK that says that no reference count *)
(* underflows, needs CountCoversOwners, which in turn needs to know that a *)
(* key is registered at most once, in the bucket of its own uoid.  IInv is *)
(* the conjunction of the three.                                           *)
(*                                                                         *)
(* On it rest the results about clean-up, duplicates, delAll, flags and    *)
(* IDs, each with an invariant of its own: Unloaded, Truthful, Blank.      *)
(***************************************************************************)
EXTENDS KeyCollector, Induction, FiniteSetTheorems, SequenceTheorems, TLAPS

HeldBy(r, k) == {h \in Holders : k \in r[h]}

\* RegisteredOnce in terms of ranges, of any registry and uoids.
PlacedIn(ks, uo) ==
  \A b \in Buckets :
    /\ IsInjective(ks[b])
    /\ \A k \in Range(ks[b]) : <<uo[k].loc, uo[k].type>> = b
RegisteredIn(ks, k) == \E b \in Buckets : k \in Range(ks[b])

Placed == PlacedIn(keys, uoid)

\* No key is registered without a location, so that AddObject can give its
\* object one.
Anchored ==
  /\ \A t \in Types : keys[<<NoLoc, t>>] = <<>>
  /\ pc \in {"keyring", "sort"} => cur.loc \in Locs

IInv == TypeOK /\ Placed /\ Anchored /\ CountCoversOwners

Uoids == [loc : Locs \cup {NoLoc}, type : Types, name : Names \cup {0}]
IDs == 0..IDMod-1
HeldCount(r, k) == Cardinality(HeldBy(r, k))

-----------------------------------------------------------------------------
(* Sequences.                                                              *)

\* Erasing one element leaves a sequence of keys.
LEMMA RemoveAtSeq ==
  ASSUME NEW S, NEW s \in Seq(S), NEW i \in 1..Len(s)
  PROVE  /\ RemoveAt(s, i) \in Seq(S)
         /\ Len(RemoveAt(s, i)) = Len(s) - 1
         /\ \A j \in 1..Len(s) - 1 :
              RemoveAt(s, i)[j] = IF j < i THEN s[j] ELSE s[j + 1]
<1> DEFINE a == SubSeq(s, 1, i - 1)
           b == SubSeq(s, i + 1, Len(s))
<1>1. /\ a \in Seq(S) /\ Len(a) = i - 1
      /\ \A j \in 1..i - 1 : a[j] = s[j]
  OBVIOUS
<1>2. /\ b \in Seq(S) /\ Len(b) = Len(s) - i
      /\ \A j \in 1..Len(s) - i : b[j] = s[i + j]
  OBVIOUS
<1>4. RemoveAt(s, i) = a \o b
  BY DEF RemoveAt
<1> HIDE DEF a, b
<1>3. /\ a \o b \in Seq(S) /\ Len(a \o b) = Len(a) + Len(b)
      /\ \A j \in 1..Len(a) + Len(b) :
           (a \o b)[j] = IF j <= Len(a) THEN a[j] ELSE b[j - Len(a)]
  BY <1>1, <1>2, ConcatProperties
<1>5. i \in Nat /\ Len(s) \in Nat /\ 1 <= i /\ i <= Len(s)
  OBVIOUS
<1>6. Len(a \o b) = Len(s) - 1
  BY <1>1, <1>2, <1>3, <1>5
<1>7. ASSUME NEW j \in 1..Len(s) - 1
      PROVE  (a \o b)[j] = IF j < i THEN s[j] ELSE s[j + 1]
  <2>0. j \in Nat /\ (j < i \/ j >= i)
    BY <1>5
  <2>1. CASE j < i
    BY <1>1, <1>2, <1>3, <1>5, <2>1
  <2>2. CASE j >= i
    <3>1. /\ j - (i - 1) \in 1..Len(s) - i
          /\ i + (j - (i - 1)) = j + 1
      BY <1>5, <2>2
    <3>2. (a \o b)[j] = b[j - (i - 1)]
      BY <1>1, <1>2, <1>3, <1>5, <2>2
    <3> QED
      BY <1>2, <1>5, <2>2, <3>1, <3>2
  <2> QED
    BY <2>0, <2>1, <2>2
<1> QED
  BY <1>3, <1>4, <1>6, <1>7

\* Where an element was before the erasure: not at the erased place.
LEMMA ShiftedIndex ==
  ASSUME NEW n \in Nat, NEW i \in 1..n, NEW x \in 1..n - 1
  PROVE  (IF x < i THEN x ELSE x + 1) \in (1..n) \ {i}
  OBVIOUS

\* Erasing one element of a bucket without duplicates takes its key out.
LEMMA RemoveAtRange ==
  ASSUME NEW S, NEW s \in Seq(S), NEW i \in 1..Len(s), IsInjective(s)
  PROVE  /\ RemoveAt(s, i) \in Seq(S)
         /\ IsInjective(RemoveAt(s, i))
         /\ Range(RemoveAt(s, i)) = Range(s) \ {s[i]}
<1> DEFINE r == RemoveAt(s, i)
<1>1. /\ r \in Seq(S) /\ Len(r) = Len(s) - 1
      /\ \A j \in 1..Len(s) - 1 : r[j] = IF j < i THEN s[j] ELSE s[j + 1]
  BY RemoveAtSeq
<1> HIDE DEF r
<1>0. Len(s) \in Nat /\ \A a, b \in 1..Len(s) : s[a] = s[b] => a = b
  BY DEF IsInjective
<1>2. ASSUME NEW x \in 1..Len(s) - 1, NEW y \in 1..Len(s) - 1, r[x] = r[y]
      PROVE  x = y
  <2> DEFINE at(z) == IF z < i THEN z ELSE z + 1
  <2>1. at(x) \in 1..Len(s) /\ at(y) \in 1..Len(s)
    BY <1>0, ShiftedIndex
  <2>2. r[x] = s[at(x)] /\ r[y] = s[at(y)]
    BY <1>1
  <2>3. at(x) = at(y)
    <3> HIDE DEF at
    <3> QED
      BY <1>0, <1>2, <2>1, <2>2
  <2> QED
    BY <2>3
<1>3. ASSUME NEW x \in Range(r) PROVE x \in Range(s) \ {s[i]}
  <2>1. PICK z \in 1..Len(s) - 1 : r[z] = x
    BY <1>1 DEF Range
  <2> DEFINE at == IF z < i THEN z ELSE z + 1
  <2>2. at \in 1..Len(s) /\ at # i
    BY <1>0, ShiftedIndex
  <2>3. x = s[at]
    BY <1>1, <2>1
  <2> HIDE DEF at
  <2> QED
    BY <1>0, <2>2, <2>3 DEF Range
<1>4. ASSUME NEW x \in Range(s) \ {s[i]} PROVE x \in Range(r)
  <2>1. PICK j \in 1..Len(s) : s[j] = x /\ j # i
    BY DEF Range
  <2>2. CASE j < i
    BY <1>1, <2>1, <2>2 DEF Range
  <2>3. CASE j > i
    <3>1. j - 1 \in 1..Len(s) - 1 /\ r[j - 1] = x
      BY <1>1, <2>1, <2>3
    <3> QED
      BY <3>1, <1>1 DEF Range
  <2> QED
    BY <2>1, <2>2, <2>3
<1>5. IsInjective(r)
  <2>1. DOMAIN r = 1..Len(s) - 1
    BY <1>0, <1>1
  <2> QED
    BY <1>2, <2>1 DEF IsInjective
<1> QED
  BY <1>1, <1>3, <1>4, <1>5 DEF r

\* push_back puts one key into a bucket and keeps the others.
LEMMA AppendRange ==
  ASSUME NEW S, NEW s \in Seq(S), NEW x \in S
  PROVE  /\ Append(s, x) \in Seq(S)
         /\ Range(Append(s, x)) = Range(s) \cup {x}
         /\ IsInjective(s) /\ x \notin Range(s) => IsInjective(Append(s, x))
<1> DEFINE a == Append(s, x)
<1>1. /\ a \in Seq(S) /\ Len(a) = Len(s) + 1
      /\ \A j \in 1..Len(s) : a[j] = s[j]
      /\ a[Len(s) + 1] = x
  OBVIOUS
<1> HIDE DEF a
<1>2. Range(a) = Range(s) \cup {x}
  BY <1>1 DEF Range
<1>3. IsInjective(s) /\ x \notin Range(s) => IsInjective(a)
  BY <1>1 DEF IsInjective, Range
<1> QED
  BY <1>1, <1>2, <1>3 DEF a

\* The loop of del and MoveKey.
LEMMA WithoutRange ==
  ASSUME NEW s \in Seq(Key), NEW k \in Key, IsInjective(s)
  PROVE  /\ Without(s, k) \in Seq(Key)
         /\ IsInjective(Without(s, k))
         /\ Range(Without(s, k)) = Range(s) \ {k}
<1>1. CASE k \notin Range(s)
  BY <1>1 DEF Without
<1>2. CASE k \in Range(s)
  <2>1. Position(s, k) \in 1..Len(s) /\ s[Position(s, k)] = k
    BY <1>2 DEF Position, Range
  <2> QED
    BY <1>2, <2>1, RemoveAtRange DEF Without
<1> QED
  BY <1>1, <1>2

\* What sort leaves is a permutation.
LEMMA SortingRange ==
  ASSUME NEW s \in Seq(Key), NEW leq, NEW q \in Sortings(s, leq), IsInjective(s)
  PROVE  q \in Seq(Key) /\ IsInjective(q) /\ Range(q) = Range(s)
<1>1. PICK p \in Bijection(DOMAIN s, DOMAIN s) : q = [i \in DOMAIN s |-> s[p[i]]]
  BY DEF Sortings
<1>2. /\ p \in [DOMAIN s -> DOMAIN s] /\ IsInjective(p)
      /\ \A i \in DOMAIN s : \E j \in DOMAIN s : p[j] = i
  BY <1>1 DEF Bijection, Injection, Surjection
<1>3. DOMAIN s = 1..Len(s) /\ Len(s) \in Nat
  OBVIOUS
<1>4. q \in Seq(Key)
  <2>1. q \in [1..Len(s) -> Key]
    BY <1>1, <1>2, <1>3
  <2> QED
    BY <2>1, <1>3
<1>5. IsInjective(q)
  BY <1>1, <1>2 DEF IsInjective
<1>6. Range(q) = Range(s)
  BY <1>1, <1>2 DEF Range
<1> QED
  BY <1>4, <1>5, <1>6

-----------------------------------------------------------------------------
(* Owners.                                                                 *)

\* The holders of a key are finitely many.
LEMMA HeldByFinite ==
  ASSUME NEW r, NEW k
  PROVE  IsFiniteSet(HeldBy(r, k)) /\ Cardinality(HeldBy(r, k)) \in Nat
<1>1. IsFiniteSet(Holders)
  BY KeyAssumption, FS_AddElement DEF Holders
<1>2. HeldBy(r, k) \in SUBSET Holders
  BY DEF HeldBy
<1> QED
  BY <1>1, <1>2, FS_Subset, FS_CardinalityType

\* One holder changes what it holds.
LEMMA HeldByUpdate ==
  ASSUME NEW r \in [Holders -> SUBSET Key], NEW h \in Holders,
         NEW S \in SUBSET Key, NEW k \in Key
  PROVE  Cardinality(HeldBy([r EXCEPT ![h] = S], k))
           = Cardinality(HeldBy(r, k)) - Count(k \in r[h]) + Count(k \in S)
<1> DEFINE new == HeldBy([r EXCEPT ![h] = S], k)
           old == HeldBy(r, k)
           rest == old \ {h}
<1>1. new = IF k \in S THEN rest \cup {h} ELSE rest
  BY DEF HeldBy
<1>2. IsFiniteSet(old) /\ Cardinality(old) \in Nat
  BY HeldByFinite
<1>3. /\ IsFiniteSet(rest)
      /\ Cardinality(rest) = IF h \in old THEN Cardinality(old) - 1 ELSE Cardinality(old)
  BY <1>2, FS_RemoveElement
<1>4. Cardinality(rest \cup {h}) = Cardinality(rest) + 1
  BY <1>3, FS_AddElement
<1>5. h \in old <=> k \in r[h]
  BY DEF HeldBy
<1> QED
  BY <1>1, <1>2, <1>3, <1>4, <1>5 DEF Count

\* One plKey counts at most once.
LEMMA CountBit == ASSUME NEW b PROVE Count(b) \in {0, 1}
BY DEF Count

-----------------------------------------------------------------------------
(* The registry.                                                           *)

\* The bucket of a key's uoid is one of the buckets.
LEMMA HomeIsBucket == TypeOK => \A k \in Key : Home(k) \in Buckets
BY DEF TypeOK, Home, Buckets

\* A registered key is where its uoid says.
LEMMA RegisteredAtHome ==
  ASSUME TypeOK, Placed, NEW k \in Key
  PROVE  Registered(k) <=> k \in Range(keys[Home(k)])
BY HomeIsBucket DEF Registered, Placed, PlacedIn, Home

\* The invariant part about places is what RegisteredOnce says.
LEMMA PlacedIsRegisteredOnce == TypeOK /\ Placed => RegisteredOnce
BY DEF TypeOK, Placed, PlacedIn, RegisteredOnce, IsInjective, Range, Home

\* A slot that is not allocated has no owner.
LEMMA FreeHasNoOwner ==
  ASSUME TypeOK, CountCoversOwners, NEW k \in Key, refCnt[k] = 0
  PROVE  /\ ~Registered(k) /\ k \notin loaded
         /\ \A h \in Holders : k \notin refs[h]
         /\ Cardinality(HeldBy(refs, k)) = 0
<1>1. Owners(k) <= 0
  BY DEF CountCoversOwners
<1>2. Owners(k) = Count(Registered(k)) + Count(k \in loaded) + Cardinality(HeldBy(refs, k))
  BY DEF Owners, HeldBy
<1>3. IsFiniteSet(HeldBy(refs, k)) /\ Cardinality(HeldBy(refs, k)) \in Nat
  BY HeldByFinite
<1>4. /\ Count(Registered(k)) = 0 /\ Count(k \in loaded) = 0
      /\ Cardinality(HeldBy(refs, k)) = 0
  BY <1>1, <1>2, <1>3, CountBit
<1>5. HeldBy(refs, k) = {}
  BY <1>3, <1>4, FS_EmptySet
<1> QED
  BY <1>4, <1>5 DEF HeldBy, Count

\* findKey finds a registered key with the uoid it looks for.
LEMMA FoundKey ==
  ASSUME TypeOK, NEW u, <<u.loc, u.type>> \in Buckets, Matches(u) # {}
  PROVE  FindKey(u) \in Key /\ Registered(FindKey(u)) /\ uoid[FindKey(u)] = u
<1> DEFINE s == keys[<<u.loc, u.type>>]
<1>1. s \in Seq(Key)
  BY DEF TypeOK
<1>2. Matches(u) \subseteq 1..Len(s) /\ Matches(u) \subseteq Nat
  BY <1>1 DEF Matches
<1>3. \E n \in Matches(u) : \A m \in Matches(u) : n <= m
  BY <1>2, LeastNumber
<1>4. Min(Matches(u)) \in Matches(u)
  BY <1>3, ZenonT(20) DEF Min
<1>5. /\ Min(Matches(u)) \in 1..Len(s)
      /\ uoid[s[Min(Matches(u))]] = u
  BY <1>1, <1>4 DEF Matches
<1>6. FindKey(u) = s[Min(Matches(u))]
  BY DEF FindKey
<1> QED
  BY <1>1, <1>5, <1>6 DEF Registered, Range

\* The owners of a key: the registry, its object, the holders.
LEMMA OwnersSum ==
  ASSUME NEW k \in Key
  PROVE  /\ Owners(k) = Count(Registered(k)) + Count(k \in loaded) + HeldCount(refs, k)
         /\ Owners(k)' = Count(Registered(k)') + Count(k \in loaded') + HeldCount(refs', k)
         /\ HeldCount(refs, k) \in Nat /\ HeldCount(refs', k) \in Nat
BY HeldByFinite DEF Owners, HeldBy, HeldCount

-----------------------------------------------------------------------------
(* What the parts of the actions do.                                       *)

\* Destroying an object takes as much from the owners as from the counts.
LEMMA DeletedOwners ==
  ASSUME TypeOK, NEW d \in Key, DeleteObj(d), NEW k \in Key
  PROVE  Count(k \in loaded') + HeldCount(refs', k)
           = Count(k \in loaded) + HeldCount(refs, k) - DeleteObjDrop(d, k)
<1>1. CASE d \notin loaded
  <2>1. loaded' = loaded /\ refs' = refs /\ DeleteObjDrop(d, k) = 0
    BY <1>1 DEF DeleteObj, DeleteObjDrop
  <2> QED
    BY <2>1, CountBit, OwnersSum
<1>2. CASE d \in loaded
  <2>1. d \in Holders /\ refs \in [Holders -> SUBSET Key]
    BY DEF TypeOK, Holders
  <2>2. HeldCount(refs', k) = HeldCount(refs, k) - Count(k \in refs[d]) + Count(k \in {})
    BY <1>2, <2>1, HeldByUpdate DEF DeleteObj, HeldCount
  <2>3. Count(k \in loaded') = Count(k \in loaded) - Count(k = d)
    BY <1>2 DEF DeleteObj, Count
  <2>4. DeleteObjDrop(d, k) = Count(k = d) + Count(k \in refs[d])
    BY <1>2 DEF DeleteObjDrop, Dropped
  <2>5. Count(k \in {}) = 0
    BY DEF Count
  <2> QED
    BY <2>2, <2>3, <2>4, <2>5, CountBit, OwnersSum
<1> QED
  BY <1>1, <1>2

\* deleteObj keeps the types of objects, held keys and counts.
LEMMA DeletedTypes ==
  ASSUME TypeOK, NEW d \in Key, DeleteObj(d)
  PROVE  loaded' \in SUBSET Key /\ refs' \in [Holders -> SUBSET Key]
BY DEF TypeOK, DeleteObj

\* A count that covers the owners does not underflow, and a datum that is
\* deleted was not registered.
LEMMA SettledCounts ==
  ASSUME NEW uo \in [Key -> Uoids], NEW ids \in [Key -> IDs],
         NEW rc \in [Key -> Int], Settle(uo, ids, rc),
         keys' \in [Buckets -> Seq(Key)],
         PlacedIn(keys', uo),
         \A x \in Key : Owners(x)' <= rc[x]
  PROVE  /\ uoid' \in [Key -> Uoids] /\ id' \in [Key -> IDs]
         /\ refCnt' \in [Key -> Nat] /\ Placed' /\ CountCoversOwners'
<1>1. ASSUME NEW x \in Key
      PROVE  rc[x] \in Nat /\ (Registered(x)' => rc[x] > 0)
  <2>1. Owners(x)' = Count(Registered(x)') + Count(x \in loaded') + HeldCount(refs', x)
    BY OwnersSum
  <2>2. HeldCount(refs', x) \in Nat
    BY OwnersSum
  <2>3. Registered(x)' => Count(Registered(x)') = 1
    BY DEF Count
  <2> QED
    BY <2>1, <2>2, <2>3, CountBit
<1>2. refCnt' = rc /\ refCnt' \in [Key -> Nat]
  BY <1>1 DEF Settle
<1>3. NoUoid \in Uoids /\ 0 \in IDs
  BY LocAssumption, IDAssumption DEF NoUoid, Uoids, NoLoc, Types, IDs
<1>4. uoid' \in [Key -> Uoids] /\ id' \in [Key -> IDs]
  BY <1>3 DEF Settle
<1>5. ASSUME NEW b \in Buckets, NEW x \in Range(keys'[b])
      PROVE  <<uoid'[x].loc, uoid'[x].type>> = b
  <2>1. x \in Key /\ Registered(x)'
    BY DEF Range, Registered
  <2>2. rc[x] # 0
    BY <1>1, <2>1
  <2>3. uoid'[x] = uo[x]
    BY <2>1, <2>2 DEF Settle
  <2> QED
    BY <2>3 DEF PlacedIn
<1>6. Placed'
  BY <1>5 DEF Placed, PlacedIn
<1>7. CountCoversOwners'
  BY <1>2 DEF CountCoversOwners
<1> QED
  BY <1>2, <1>4, <1>6, <1>7
-----------------------------------------------------------------------------
(* The calls keep the invariant.                                           *)

\* An empty manager satisfies the invariant.
LEMMA InitInv == Init => IInv
<1> SUFFICES ASSUME Init PROVE IInv
  OBVIOUS
<1>1. TypeOK
  BY LocAssumption, IDAssumption
  DEF Init, TypeOK, NoUoid, NoLoc, Types, Buckets
<1>2. Placed
  BY DEF Init, Placed, PlacedIn, IsInjective, Range
<1>4. Anchored
  BY DEF Init, Anchored, Buckets, NoLoc
<1>3. ASSUME NEW k \in Key PROVE Owners(k) <= refCnt[k]
  <2>1. HeldBy(refs, k) = {} /\ ~Registered(k) /\ k \notin loaded
    BY DEF Init, HeldBy, Registered, Range
  <2>2. HeldCount(refs, k) = 0
    BY <2>1, FS_EmptySet DEF HeldCount
  <2>3. Count(Registered(k)) = 0 /\ Count(k \in loaded) = 0
    BY <2>1 DEF Count
  <2>4. refCnt[k] = 0
    BY DEF Init
  <2> QED
    BY <2>2, <2>3, <2>4, OwnersSum
<1> QED
  BY <1>1, <1>2, <1>3, <1>4 DEF IInv, CountCoversOwners

\* A uoid names a bucket.
LEMMA UoidBucket == ASSUME NEW u \in Uoid PROVE <<u.loc, u.type>> \in Buckets /\ u \in Uoids
BY DEF Uoid, Buckets, Uoids

\* A holder takes one more key.
LEMMA TakenKey ==
  ASSUME TypeOK, CountCoversOwners, NEW h \in Holders, NEW x \in Key, x \notin refs[h],
         refs' = [refs EXCEPT ![h] = @ \cup {x}],
         refCnt' = [refCnt EXCEPT ![x] = @ + 1],
         keys' = keys, loaded' = loaded
  PROVE  /\ refCnt' \in [Key -> Nat] /\ refs' \in [Holders -> SUBSET Key]
         /\ CountCoversOwners'
<1>1. refCnt' \in [Key -> Nat] /\ refs' \in [Holders -> SUBSET Key]
  BY DEF TypeOK
<1>2. ASSUME NEW k \in Key PROVE Owners(k)' <= refCnt'[k]
  <2>1. /\ Count(Registered(k)') = Count(Registered(k))
        /\ Count(k \in loaded') = Count(k \in loaded)
    BY DEF Registered
  <2>2. HeldCount(refs', k) =
          HeldCount(refs, k) - Count(k \in refs[h]) + Count(k \in refs[h] \cup {x})
    <3>1. refs \in [Holders -> SUBSET Key] /\ refs[h] \cup {x} \in SUBSET Key
      BY DEF TypeOK
    <3> QED
      BY <3>1, HeldByUpdate DEF HeldCount
  <2>3. Owners(k) <= refCnt[k] /\ refCnt[k] \in Nat
    BY DEF CountCoversOwners, TypeOK
  <2>4. refCnt'[k] = refCnt[k] + Count(k = x)
    BY <2>3 DEF TypeOK, Count
  <2>5. Count(k \in refs[h] \cup {x}) = Count(k \in refs[h]) + Count(k = x)
    BY DEF Count
  <2>6. /\ Owners(k) = Count(Registered(k)) + Count(k \in loaded) + HeldCount(refs, k)
        /\ Owners(k)' = Count(Registered(k)') + Count(k \in loaded') + HeldCount(refs', k)
        /\ HeldCount(refs, k) \in Nat /\ HeldCount(refs', k) \in Nat
    BY OwnersSum
  <2> QED
    BY <2>1, <2>2, <2>3, <2>4, <2>5, <2>6, CountBit
<1> QED
  BY <1>1, <1>2 DEF CountCoversOwners

\* readUoid and prcParseKey of a uoid that is registered.
LEMMA ReadKnownKeyInv ==
  ASSUME IInv, NEW h \in Holders, NEW u \in Uoid, NEW i \in StreamIDs,
         ReadKnownKey(h, u, i) \/ ParseKnownKey(h, u)
  PROVE  IInv'
<1> DEFINE x == FindKey(u)
<1>1. x \in Key
  BY UoidBucket, FoundKey DEF IInv, ReadKnownKey, ParseKnownKey, KnownKey
<1> HIDE DEF x
<1>2. /\ x \notin refs[h] /\ refs' = [refs EXCEPT ![h] = @ \cup {x}]
      /\ refCnt' = [refCnt EXCEPT ![x] = @ + 1]
      /\ id' \in {id, [id EXCEPT ![x] = i]}
      /\ UNCHANGED <<keys, notOpt, uoid, loaded, pc, cur>>
  BY DEF ReadKnownKey, ParseKnownKey, KnownKey, Idle, registry, x
<1>3. /\ refCnt' \in [Key -> Nat] /\ refs' \in [Holders -> SUBSET Key]
      /\ CountCoversOwners'
  BY <1>1, <1>2, TakenKey DEF IInv
<1>4. TypeOK'
  BY <1>2, <1>3, IDAssumption DEF IInv, TypeOK
<1>5. Placed' /\ Anchored'
  BY <1>2 DEF IInv, Placed, PlacedIn, Anchored
<1> QED
  BY <1>3, <1>4, <1>5 DEF IInv

\* The application copies a plKey.
LEMMA AcquireHandleInv ==
  ASSUME IInv, NEW k \in Key, AcquireHandle(k)
  PROVE  IInv'
<1>1. /\ k \notin refs[App] /\ App \in Holders
      /\ refs' = [refs EXCEPT ![App] = @ \cup {k}]
      /\ refCnt' = [refCnt EXCEPT ![k] = @ + 1]
      /\ UNCHANGED <<keys, notOpt, uoid, id, loaded, pc, cur>>
  BY DEF AcquireHandle, Idle, registry, Holders
<1>2. /\ refCnt' \in [Key -> Nat] /\ refs' \in [Holders -> SUBSET Key]
      /\ CountCoversOwners'
  BY <1>1, TakenKey DEF IInv
<1>3. TypeOK'
  BY <1>1, <1>2 DEF IInv, TypeOK
<1>4. Placed' /\ Anchored'
  BY <1>1 DEF IInv, Placed, PlacedIn, Anchored
<1> QED
  BY <1>2, <1>3, <1>4 DEF IInv

\* plKeyCollector::add of a key that is not registered, to any registry.
AddedTo(ks, uo, k, u, c, new, uo2) ==
  /\ ks \in [Buckets -> Seq(Key)] /\ uo \in [Key -> Uoids] /\ PlacedIn(ks, uo)
  /\ k \in Key /\ ~RegisteredIn(ks, k)
  /\ c \in Buckets /\ c = <<u.loc, u.type>>
  /\ new[c] = Append(ks[c], k) /\ \A b \in Buckets : b # c => new[b] = ks[b]
  /\ uo2[k] = u /\ \A x \in Key : x # k => uo2[x] = uo[x]

\* A key that is added to its bucket: places of all keys.
LEMMA AddedIn ==
  ASSUME NEW ks, NEW uo, NEW k, NEW u, NEW c, NEW new, NEW uo2,
         AddedTo(ks, uo, k, u, c, new, uo2)
  PROVE  /\ PlacedIn(new, uo2)
         /\ \A x \in Key : RegisteredIn(new, x) <=> (RegisteredIn(ks, x) \/ x = k)
<1> USE DEF AddedTo
<1>1. /\ new[c] = Append(ks[c], k)
      /\ \A b \in Buckets : b # c => new[b] = ks[b]
      /\ uo2[k] = u /\ \A x \in Key : x # k => uo2[x] = uo[x]
  OBVIOUS
<1>2. /\ Append(ks[c], k) \in Seq(Key) /\ IsInjective(Append(ks[c], k))
      /\ Range(Append(ks[c], k)) = Range(ks[c]) \cup {k}
  <2>1. k \notin Range(ks[c]) /\ IsInjective(ks[c])
    BY DEF RegisteredIn, PlacedIn
  <2>2. ks[c] \in Seq(Key)
    OBVIOUS
  <2>3. /\ Append(ks[c], k) \in Seq(Key)
        /\ Range(Append(ks[c], k)) = Range(ks[c]) \cup {k}
        /\ (IsInjective(ks[c]) /\ k \notin Range(ks[c])) => IsInjective(Append(ks[c], k))
    BY <2>2, AppendRange, Zenon
  <2> QED
    BY <2>1, <2>3, Zenon
<1>4. ASSUME NEW b \in Buckets, NEW x
      PROVE  x \in Range(new[b]) <=> (x \in Range(ks[b]) \/ (x = k /\ b = c))
  <2>1. CASE b = c
    BY <1>1, <1>2, <2>1
  <2>2. CASE b # c
    BY <1>1, <2>2
  <2> QED
    BY <2>1, <2>2
<1>5. ASSUME NEW x \in Key PROVE RegisteredIn(new, x) <=> (RegisteredIn(ks, x) \/ x = k)
  BY <1>4 DEF RegisteredIn
<1>6. ASSUME NEW b \in Buckets, NEW x \in Range(new[b])
      PROVE  <<uo2[x].loc, uo2[x].type>> = b
  <2>1. CASE x = k
    <3>1. k \notin Range(ks[b])
      BY DEF RegisteredIn
    <3> QED
      BY <1>1, <1>4, <2>1, <3>1
  <2>2. CASE x # k
    <3>1. x \in Range(ks[b])
      BY <1>4, <2>2
    <3>2. x \in Key
      BY <3>1 DEF Range
    <3> QED
      BY <1>1, <2>2, <3>1, <3>2 DEF PlacedIn
  <2> QED
    BY <2>1, <2>2
<1>7. ASSUME NEW b \in Buckets PROVE IsInjective(new[b])
  BY <1>1, <1>2 DEF PlacedIn
<1>8. PlacedIn(new, uo2)
  BY <1>6, <1>7 DEF PlacedIn
<1> QED
  BY <1>5, <1>8

\* A key that is taken out of the bucket it is in.
RemovedFrom(k, b, new) ==
  /\ k \in Key /\ b \in Buckets /\ b = Home(k)
  /\ IsInjective(new[b]) /\ Range(new[b]) = Range(keys[b]) \ {k}
  /\ \A c \in Buckets : c # b => new[c] = keys[c]

\* A key that leaves its bucket: places of all keys.
LEMMA RemovedIn ==
  ASSUME Placed, NEW k, NEW b, NEW new, RemovedFrom(k, b, new)
  PROVE  /\ PlacedIn(new, uoid)
         /\ \A x \in Key : RegisteredIn(new, x) <=> (Registered(x) /\ x # k)
<1> USE DEF RemovedFrom
<1>3. ASSUME NEW c \in Buckets, NEW x
      PROVE  x \in Range(new[c]) <=> (x \in Range(keys[c]) /\ x # k)
  <2>1. CASE c = b
    BY <2>1
  <2>2. CASE c # b
    <3>1. k \notin Range(keys[c])
      BY <2>2 DEF Placed, PlacedIn, Home
    <3> QED
      BY <2>2, <3>1
  <2> QED
    BY <2>1, <2>2
<1>4. \A x \in Key : RegisteredIn(new, x) <=> (Registered(x) /\ x # k)
  BY <1>3 DEF RegisteredIn, Registered
<1>5. PlacedIn(new, uoid)
  <2>1. \A c \in Buckets : IsInjective(new[c])
    BY DEF Placed, PlacedIn
  <2> QED
    BY <1>3, <2>1 DEF Placed, PlacedIn
<1> QED
  BY <1>4, <1>5

\* Object IDs stay within the width of their field.
LEMMA ModIDs == ASSUME NEW n \in Nat PROVE n % IDMod \in IDs /\ (n + 1) % IDMod \in IDs
BY IDAssumption DEF IDs

\* The ID that add gives is an object ID.
LEMMA AddedIDType ==
  ASSUME TypeOK, NEW u \in Uoids, <<u.loc, u.type>> \in Buckets, NEW i \in IDs
  PROVE  AddedID(u, i) \in IDs
<1>1. Len(keys[<<u.loc, u.type>>]) \in Nat
  BY DEF TypeOK
<1>2. (Len(keys[<<u.loc, u.type>>]) + 1) % IDMod \in IDs
  BY <1>1, ModIDs
<1> QED
  BY <1>2 DEF AddedID

\* AddKey of a new key keeps the registry correct.
LEMMA AddedKey ==
  ASSUME TypeOK, Placed, NEW k \in Key, ~Registered(k),
         NEW u \in Uoids, <<u.loc, u.type>> \in Buckets,
         keys' = AddedKeys(k, u), uoid' = [uoid EXCEPT ![k] = u]
  PROVE  /\ keys' \in [Buckets -> Seq(Key)] /\ uoid' \in [Key -> Uoids] /\ Placed'
         /\ \A x \in Key : Registered(x)' <=> (Registered(x) \/ x = k)
         /\ Anchored /\ u.loc # NoLoc => \A t \in Types : keys'[<<NoLoc, t>>] = <<>>
<1> DEFINE c == <<u.loc, u.type>>
<1>1. /\ keys \in [Buckets -> Seq(Key)] /\ uoid \in [Key -> Uoids] /\ c \in Buckets
      /\ PlacedIn(keys, uoid) /\ ~RegisteredIn(keys, k)
  BY DEF TypeOK, Uoids, Placed, Registered, RegisteredIn
<1>2. keys' = [keys EXCEPT ![c] = Append(@, k)]
  BY DEF AddedKeys
<1> HIDE DEF c
<1>3. /\ keys' \in [Buckets -> Seq(Key)] /\ uoid' \in [Key -> Uoids]
      /\ PlacedIn(keys', uoid')
      /\ \A x \in Key : RegisteredIn(keys', x) <=> (RegisteredIn(keys, x) \/ x = k)
  <2>1. c = <<u.loc, u.type>>
    BY DEF c
  <2>2. keys' \in [Buckets -> Seq(Key)] /\ uoid' \in [Key -> Uoids]
    BY <1>1, <1>2
  <2>3. /\ keys'[c] = Append(keys[c], k)
        /\ \A b \in Buckets : b # c => keys'[b] = keys[b]
        /\ uoid'[k] = u /\ \A x \in Key : x # k => uoid'[x] = uoid[x]
    BY <1>1, <1>2
  <2>4. AddedTo(keys, uoid, k, u, c, keys', uoid')
    BY <1>1, <2>1, <2>3 DEF AddedTo
  <2>5. /\ PlacedIn(keys', uoid')
        /\ \A x \in Key : RegisteredIn(keys', x) <=> (RegisteredIn(keys, x) \/ x = k)
    BY <2>4, AddedIn
  <2> QED
    BY <2>2, <2>5
<1>4. Anchored /\ u.loc # NoLoc => \A t \in Types : keys'[<<NoLoc, t>>] = <<>>
  BY <1>1, <1>2 DEF Anchored, Buckets, c
<1> QED
  BY <1>3, <1>4 DEF Placed, Registered, RegisteredIn

\* readUoid of a uoid that is not registered.
LEMMA ReadNewKeyInv ==
  ASSUME IInv, NEW h \in Holders, NEW u \in Uoid, NEW i \in StreamIDs,
         ReadNewKey(h, u, i)
  PROVE  IInv'
<1>1. PICK k \in Key :
        /\ ~Allocated(k)
        /\ keys' = AddedKeys(k, u)
        /\ notOpt' = notOpt \cup {<<u.loc, u.type>>}
        /\ uoid' = [uoid EXCEPT ![k] = u]
        /\ id' = [id EXCEPT ![k] = AddedID(u, i)]
        /\ refCnt' = [refCnt EXCEPT ![k] = 2]
        /\ refs' = [refs EXCEPT ![h] = @ \cup {k}]
  BY DEF ReadNewKey
<1>2. UNCHANGED <<loaded, pc, cur>>
  BY DEF ReadNewKey, Idle
<1>3. refCnt[k] = 0
  BY <1>1 DEF Allocated, IInv, TypeOK
<1>4. /\ ~Registered(k) /\ k \notin loaded /\ \A g \in Holders : k \notin refs[g]
      /\ HeldCount(refs, k) = 0
  BY <1>3, FreeHasNoOwner DEF IInv, HeldCount
<1>5. u \in Uoids /\ <<u.loc, u.type>> \in Buckets /\ i \in IDs
  BY UoidBucket, IDAssumption DEF IDs
<1>6. /\ keys' \in [Buckets -> Seq(Key)] /\ uoid' \in [Key -> Uoids] /\ Placed'
      /\ \A x \in Key : Registered(x)' <=> (Registered(x) \/ x = k)
      /\ Anchored'
  <2>1. u.loc # NoLoc
    BY DEF Uoid, Locs, NoLoc
  <2> QED
    BY <1>1, <1>2, <1>4, <1>5, <2>1, AddedKey DEF IInv, Anchored
<1>7. TypeOK'
  <2>1. AddedID(u, i) \in IDs
    BY <1>5, AddedIDType DEF IInv
  <2> QED
    BY <1>1, <1>2, <1>5, <1>6, <2>1 DEF IInv, TypeOK, Uoids, IDs
<1>8. ASSUME NEW x \in Key PROVE Owners(x)' <= refCnt'[x]
  <2>1. HeldCount(refs', x) =
          HeldCount(refs, x) - Count(x \in refs[h]) + Count(x \in refs[h] \cup {k})
    <3>1. refs \in [Holders -> SUBSET Key] /\ refs[h] \cup {k} \in SUBSET Key
      BY DEF IInv, TypeOK
    <3> QED
      BY <1>1, <3>1, HeldByUpdate DEF HeldCount
  <2>2. Owners(x) <= refCnt[x] /\ refCnt[x] \in Nat
    BY DEF IInv, CountCoversOwners, TypeOK
  <2>3. CASE x = k
    <3>1. HeldCount(refs', x) = 1 /\ Count(x \in loaded') = 0 /\ refCnt'[x] = 2
      BY <1>1, <1>2, <1>4, <2>1, <2>3 DEF Count, IInv, TypeOK
    <3> QED
      BY <3>1, OwnersSum, CountBit
  <2>4. CASE x # k
    <3>2. Count(Registered(x)') = Count(Registered(x))
      BY <1>6, <2>4 DEF Count
    <3>3. refCnt'[x] = refCnt[x]
      BY <1>1, <2>4 DEF IInv, TypeOK
    <3>1. HeldCount(refs', x) = HeldCount(refs, x)
      <4>1. Count(x \in refs[h] \cup {k}) = Count(x \in refs[h])
        BY <2>4 DEF Count
      <4> QED
        BY <2>1, <4>1, OwnersSum, CountBit
    <3> QED
      BY <1>2, <2>2, <3>1, <3>2, <3>3, OwnersSum, CountBit
  <2> QED
    BY <2>3, <2>4
<1> QED
  BY <1>6, <1>7, <1>8 DEF IInv, CountCoversOwners

\* The application drops a plKey, perhaps the last one.
LEMMA ReleaseHandleInv ==
  ASSUME IInv, NEW k \in Key, ReleaseHandle(k)
  PROVE  IInv'
<1> DEFINE rc == [refCnt EXCEPT ![k] = @ - 1]
<1>1. /\ k \in refs[App] /\ App \in Holders
      /\ refs' = [refs EXCEPT ![App] = @ \ {k}]
      /\ Settle(uoid, id, rc)
      /\ UNCHANGED <<keys, notOpt, loaded, pc, cur>>
  BY DEF ReleaseHandle, Idle, registry, Holders
<1>2. /\ refs \in [Holders -> SUBSET Key] /\ refs[App] \ {k} \in SUBSET Key
      /\ refCnt \in [Key -> Nat] /\ uoid \in [Key -> Uoids] /\ id \in [Key -> IDs]
      /\ rc \in [Key -> Int]
  BY <1>1 DEF IInv, TypeOK, Uoids, IDs
<1>3. ASSUME NEW x \in Key PROVE Owners(x)' <= rc[x]
  <2>1. Count(Registered(x)') = Count(Registered(x)) /\ loaded' = loaded
    BY <1>1 DEF Registered
  <2>2. HeldCount(refs', x) =
          HeldCount(refs, x) - Count(x \in refs[App]) + Count(x \in refs[App] \ {k})
    <3> DEFINE S == refs[App] \ {k}
    <3>1. refs' = [refs EXCEPT ![App] = S] /\ S \in SUBSET Key
      BY <1>1, <1>2
    <3> HIDE DEF S
    <3>2. HeldCount(refs', x) = HeldCount(refs, x) - Count(x \in refs[App]) + Count(x \in S)
      <4>1. App \in Holders /\ refs \in [Holders -> SUBSET Key]
        BY <1>1, <1>2
      <4> QED
        BY <3>1, <4>1, HeldByUpdate DEF HeldCount
    <3> QED
      BY <3>2 DEF S
  <2>3. Owners(x) <= refCnt[x] /\ refCnt[x] \in Nat
    BY <1>2 DEF IInv, CountCoversOwners
  <2>4. rc[x] = refCnt[x] - Count(x = k)
    BY <1>2 DEF Count
  <2>5. Count(x \in refs[App] \ {k}) = Count(x \in refs[App]) - Count(x = k)
    BY <1>1 DEF Count
  <2> HIDE DEF rc
  <2> QED
    BY <2>1, <2>2, <2>3, <2>4, <2>5, OwnersSum, CountBit
<1> HIDE DEF rc
<1>4. keys' \in [Buckets -> Seq(Key)] /\ PlacedIn(keys', uoid) /\ Anchored'
  BY <1>1 DEF IInv, TypeOK, Placed, Anchored
<1>5. /\ uoid' \in [Key -> Uoids] /\ id' \in [Key -> IDs]
      /\ refCnt' \in [Key -> Nat] /\ Placed' /\ CountCoversOwners'
  BY <1>1, <1>2, <1>3, <1>4, SettledCounts
<1>6. TypeOK'
  <2>1. refs' \in [Holders -> SUBSET Key]
    BY <1>1, <1>2
  <2> QED
    BY <1>1, <1>5, <2>1 DEF IInv, TypeOK, Uoids, IDs
<1> QED
  BY <1>4, <1>5, <1>6 DEF IInv

\* A new object for key k, registered or not, which has none.
LEMMA LinkedObject ==
  ASSUME TypeOK, CountCoversOwners, NEW k \in Key, k \notin loaded,
         loaded' = loaded \cup {k}, refCnt' = [refCnt EXCEPT ![k] = @ + 1],
         keys' = keys, refs' = refs
  PROVE  refCnt' \in [Key -> Nat] /\ loaded' \in SUBSET Key /\ CountCoversOwners'
<1>1. refCnt' \in [Key -> Nat] /\ loaded' \in SUBSET Key
  BY DEF TypeOK
<1>2. ASSUME NEW x \in Key PROVE Owners(x)' <= refCnt'[x]
  <2>1. Count(Registered(x)') = Count(Registered(x))
    BY DEF Registered
  <2>2. Owners(x) <= refCnt[x] /\ refCnt[x] \in Nat
    BY DEF CountCoversOwners, TypeOK
  <2>3. refCnt'[x] = refCnt[x] + Count(x = k)
    BY <2>2 DEF TypeOK, Count
  <2>4. Count(x \in loaded') = Count(x \in loaded) + Count(x = k)
    BY DEF Count
  <2>5. HeldCount(refs', x) = HeldCount(refs, x)
    OBVIOUS
  <2> QED
    BY <2>1, <2>2, <2>3, <2>4, <2>5, OwnersSum, CountBit
<1> QED
  BY <1>1, <1>2 DEF CountCoversOwners

\* hsKeyedObject::init.
LEMMA InitObjectInv ==
  ASSUME IInv, NEW k \in Key, NEW t \in Types, NEW n \in Names, InitObject(k, t, n)
  PROVE  IInv'
<1>1. /\ ~Allocated(k)
      /\ uoid' = [uoid EXCEPT ![k] = [loc |-> NoLoc, type |-> t, name |-> n]]
      /\ refCnt' = [refCnt EXCEPT ![k] = 1]
      /\ loaded' = loaded \cup {k}
      /\ UNCHANGED <<keys, notOpt, id, refs, pc, cur>>
  BY DEF InitObject, Idle, registry
<1>2. refCnt[k] = 0
  BY <1>1 DEF Allocated, IInv, TypeOK
<1>3. ~Registered(k) /\ k \notin loaded
  BY <1>2, FreeHasNoOwner DEF IInv
<1>4. refCnt' = [refCnt EXCEPT ![k] = @ + 1]
  BY <1>1, <1>2 DEF IInv, TypeOK
<1>5. refCnt' \in [Key -> Nat] /\ loaded' \in SUBSET Key /\ CountCoversOwners'
  BY <1>1, <1>3, <1>4, LinkedObject DEF IInv
<1>6. TypeOK'
  <2>1. [loc |-> NoLoc, type |-> t, name |-> n] \in Uoids
    BY DEF Uoids
  <2>2. uoid' \in [Key -> Uoids]
    BY <1>1, <2>1 DEF IInv, TypeOK, Uoids
  <2> QED
    BY <1>1, <1>5, <2>2 DEF IInv, TypeOK, Uoids
<1>7. Placed' /\ Anchored'
  <2>1. ASSUME NEW b \in Buckets, NEW x \in Range(keys'[b])
        PROVE  <<uoid'[x].loc, uoid'[x].type>> = b
    <3>1. x \in Key /\ Registered(x) /\ x \in Range(keys[b])
      BY <1>1 DEF Registered, Range, IInv, TypeOK
    <3>2. uoid'[x] = uoid[x]
      BY <1>1, <1>3, <3>1 DEF IInv, TypeOK
    <3> QED
      BY <3>1, <3>2 DEF IInv, Placed, PlacedIn
  <2> QED
    BY <1>1, <2>1 DEF IInv, Placed, PlacedIn, Anchored
<1> QED
  BY <1>5, <1>6, <1>7 DEF IInv

\* An object is read and linked to its key.
LEMMA LoadObjectInv ==
  ASSUME IInv, NEW k \in Key, LoadObject(k)
  PROVE  IInv'
<1>1. /\ k \notin loaded /\ loaded' = loaded \cup {k}
      /\ refCnt' = [refCnt EXCEPT ![k] = @ + 1]
      /\ UNCHANGED <<keys, notOpt, uoid, id, refs, pc, cur>>
  BY DEF LoadObject, Idle, registry
<1>2. refCnt' \in [Key -> Nat] /\ loaded' \in SUBSET Key /\ CountCoversOwners'
  BY <1>1, LinkedObject DEF IInv
<1>3. TypeOK'
  BY <1>1, <1>2 DEF IInv, TypeOK
<1>4. Placed' /\ Anchored'
  BY <1>1 DEF IInv, Placed, PlacedIn, Anchored
<1> QED
  BY <1>2, <1>3, <1>4 DEF IInv

\* A registered key has a location.
LEMMA RegisteredHasLoc ==
  ASSUME TypeOK, Placed, Anchored, NEW k \in Key, Registered(k)
  PROVE  uoid[k].loc \in Locs
<1>1. k \in Range(keys[Home(k)]) /\ uoid[k] \in Uoids
  BY RegisteredAtHome DEF TypeOK, Uoids
<1>2. ASSUME uoid[k].loc = NoLoc PROVE FALSE
  <2>1. Home(k) = <<NoLoc, uoid[k].type>> /\ uoid[k].type \in Types
    BY <1>1, <1>2 DEF Home, Uoids
  <2>2. keys[Home(k)] = <<>>
    BY <2>1 DEF Anchored
  <2> QED
    BY <1>1, <2>2 DEF Range
<1> QED
  BY <1>1, <1>2 DEF Uoids

\* AddObject, of a new key or of one that is registered.
LEMMA AddObjectInv ==
  ASSUME IInv, NEW l \in Locs, NEW k \in Key, AddObject(l, k)
  PROVE  IInv'
<1> DEFINE u == [uoid[k] EXCEPT !.loc = l]
<1>1. uoid \in [Key -> Uoids] /\ uoid[k] \in Uoids
  BY DEF IInv, TypeOK, Uoids
<1>2. u \in Uoids /\ <<u.loc, u.type>> \in Buckets /\ u.loc = l /\ l # NoLoc
  BY <1>1 DEF Uoids, Buckets, Locs, NoLoc
<1>3. ~Registered(k)
  BY RegisteredHasLoc DEF IInv, AddObject, Locs, NoLoc
<1>4. UNCHANGED <<loaded, refs, pc, cur>> /\ uoid' = [uoid EXCEPT ![k] = u]
  BY DEF AddObject, Idle
<1> HIDE DEF u
<1>5. CASE UNCHANGED <<registry, id, refCnt>>
  <2>1. uoid' \in [Key -> Uoids]
    BY <1>1, <1>2, <1>4
  <2>2. TypeOK'
    BY <1>4, <1>5, <2>1 DEF IInv, TypeOK, registry, Uoids
  <2>3. ASSUME NEW b \in Buckets, NEW x \in Range(keys[b])
        PROVE  <<uoid'[x].loc, uoid'[x].type>> = b
    <3>1. x \in Key /\ x # k
      BY <1>3 DEF Registered, Range, IInv, TypeOK
    <3>2. uoid'[x] = uoid[x]
      BY <1>1, <1>4, <3>1
    <3> QED
      BY <3>2 DEF IInv, Placed, PlacedIn
  <2>4. Placed' /\ Anchored'
    BY <1>4, <1>5, <2>3 DEF IInv, Placed, PlacedIn, Anchored, registry
  <2>5. ASSUME NEW x \in Key PROVE Owners(x)' <= refCnt'[x]
    BY <1>4, <1>5 DEF IInv, CountCoversOwners, Owners, Registered, registry
  <2> QED
    BY <2>2, <2>4, <2>5 DEF IInv, CountCoversOwners
<1>6. CASE /\ keys' = AddedKeys(k, u)
           /\ notOpt' = notOpt \cup {<<l, u.type>>}
           /\ id' = [id EXCEPT ![k] = AddedID(u, @)]
           /\ refCnt' = [refCnt EXCEPT ![k] = @ + 1]
  <2>1. /\ keys' \in [Buckets -> Seq(Key)] /\ uoid' \in [Key -> Uoids] /\ Placed'
        /\ \A x \in Key : Registered(x)' <=> (Registered(x) \/ x = k)
        /\ \A t \in Types : keys'[<<NoLoc, t>>] = <<>>
    BY <1>2, <1>3, <1>4, <1>6, AddedKey DEF IInv
  <2>2. Anchored'
    BY <1>4, <2>1 DEF IInv, Anchored
  <2>3. TypeOK'
    <3>1. id[k] \in IDs /\ AddedID(u, id[k]) \in IDs
      BY <1>2, AddedIDType DEF IInv, TypeOK, IDs
    <3>2. id' \in [Key -> IDs]
      BY <1>6, <3>1 DEF IInv, TypeOK, IDs
    <3>3. refCnt' \in [Key -> Nat]
      BY <1>6 DEF IInv, TypeOK
    <3>4. notOpt' \in SUBSET Buckets
      <4>1. <<l, u.type>> \in Buckets
        BY <1>2
      <4> QED
        BY <1>6, <4>1 DEF IInv, TypeOK
    <3> QED
      BY <1>4, <2>1, <3>2, <3>3, <3>4 DEF IInv, TypeOK, Uoids, IDs
  <2>4. ASSUME NEW x \in Key PROVE Owners(x)' <= refCnt'[x]
    <3>1. Owners(x) <= refCnt[x] /\ refCnt[x] \in Nat
      BY DEF IInv, CountCoversOwners, TypeOK
    <3>2. refCnt'[x] = refCnt[x] + Count(x = k)
      BY <1>6, <3>1 DEF IInv, TypeOK, Count
    <3>3. Count(Registered(x)') = Count(Registered(x)) + Count(x = k)
      BY <1>3, <2>1 DEF Count
    <3>4. Count(x \in loaded') = Count(x \in loaded) /\ HeldCount(refs', x) = HeldCount(refs, x)
      BY <1>4
    <3> QED
      BY <3>1, <3>2, <3>3, <3>4, OwnersSum, CountBit
  <2> QED
    BY <2>1, <2>2, <2>3, <2>4 DEF IInv, CountCoversOwners
<1> QED
  BY <1>5, <1>6 DEF AddObject, u

\* The renumbering of del keeps object IDs in their type.
LEMMA RenumberedType ==
  ASSUME TypeOK, NEW s, NEW k
  PROVE  Renumbered(s, k) \in [Key -> IDs]
<1>1. ASSUME NEW x \in Key PROVE id[x] \in IDs /\ (id[x] + IDMod - 1) % IDMod \in IDs
  <2>1. id[x] \in IDs /\ IDMod \in Nat /\ IDMod > 0
    BY IDAssumption DEF TypeOK, IDs
  <2>2. id[x] + IDMod - 1 \in Nat
    BY <2>1 DEF IDs
  <2> QED
    BY <2>1, <2>2, ModIDs
<1> QED
  BY <1>1 DEF Renumbered

\* del and MoveKey on the bucket of a key, in it or not.
LEMMA WithoutRemoves ==
  ASSUME IInv, NEW k \in Key, NEW new,
         new = [keys EXCEPT ![Home(k)] = Without(keys[Home(k)], k)]
  PROVE  /\ new \in [Buckets -> Seq(Key)] /\ PlacedIn(new, uoid)
         /\ \A x \in Key : RegisteredIn(new, x) <=> (Registered(x) /\ x # k)
         /\ \A t \in Types : new[<<NoLoc, t>>] = <<>>
<1> DEFINE b == Home(k)
           s == keys[b]
<1>1. b \in Buckets /\ s \in Seq(Key) /\ IsInjective(s) /\ keys \in [Buckets -> Seq(Key)]
  BY HomeIsBucket DEF IInv, TypeOK, Placed, PlacedIn
<1>2. /\ Without(s, k) \in Seq(Key) /\ IsInjective(Without(s, k))
      /\ Range(Without(s, k)) = Range(s) \ {k}
  BY <1>1, WithoutRange
<1>3. /\ new \in [Buckets -> Seq(Key)] /\ new[b] = Without(s, k)
      /\ \A c \in Buckets : c # b => new[c] = keys[c]
  BY <1>1, <1>2
<1>4. RemovedFrom(k, b, new)
  BY <1>1, <1>2, <1>3 DEF RemovedFrom
<1>5. ASSUME NEW t \in Types PROVE new[<<NoLoc, t>>] = <<>>
  <2>1. keys[<<NoLoc, t>>] = <<>> /\ <<NoLoc, t>> \in Buckets
    BY DEF IInv, Anchored, Buckets
  <2>2. CASE <<NoLoc, t>> = b
    <3>1. k \notin Range(s)
      BY <2>1, <2>2 DEF Range
    <3> QED
      BY <1>3, <2>1, <2>2, <3>1 DEF Without
  <2>3. CASE <<NoLoc, t>> # b
    BY <1>3, <2>1, <2>3
  <2> QED
    BY <2>2, <2>3
<1>6. /\ PlacedIn(new, uoid)
      /\ \A x \in Key : RegisteredIn(new, x) <=> (Registered(x) /\ x # k)
  <2>1. Placed
    BY DEF IInv
  <2> HIDE DEF b, s
  <2> QED
    BY <1>4, <2>1, RemovedIn, ZenonT(40)
<1> QED
  BY <1>3, <1>5, <1>6

\* Erasing one key gives back no more than the one plKey the registry had.
LEMMA WithoutDropBound ==
  ASSUME TypeOK, NEW k \in Key
  PROVE  WithoutDrop(keys[Home(k)], k) \in {0, 1}
         /\ WithoutDrop(keys[Home(k)], k) <= Count(Registered(k))
<1>1. Home(k) \in Buckets
  BY HomeIsBucket
<1>2. k \in Range(keys[Home(k)]) => Registered(k)
  BY <1>1 DEF Registered
<1> QED
  BY <1>2 DEF WithoutDrop, Count

\* del takes a key out and keeps the counts covering the owners.
LEMMA DelKeyInv ==
  ASSUME IInv, NEW k \in Key, DelKey(k)
  PROVE  IInv'
<1> DEFINE h == Home(k)
           rc == [x \in Key |-> refCnt[x] - DeleteObjDrop(k, x)
                                - IF x = k THEN WithoutDrop(keys[h], k) ELSE 0]
<1>1. /\ keys' = [keys EXCEPT ![h] = Without(keys[h], k)]
      /\ notOpt' \in {notOpt, notOpt \ {h}}
      /\ Settle(uoid, Renumbered(keys[h], k), rc)
      /\ DeleteObj(k) /\ UNCHANGED <<pc, cur>>
  BY DEF DelKey, Idle
<1>2. /\ keys' \in [Buckets -> Seq(Key)] /\ PlacedIn(keys', uoid)
      /\ \A x \in Key : RegisteredIn(keys', x) <=> (Registered(x) /\ x # k)
      /\ \A t \in Types : keys'[<<NoLoc, t>>] = <<>>
  BY <1>1, WithoutRemoves
<1>3. ASSUME NEW x \in Key PROVE rc[x] \in Int /\ Owners(x)' <= rc[x]
  <2>1. Owners(x) <= refCnt[x] /\ refCnt[x] \in Nat
    BY DEF IInv, CountCoversOwners, TypeOK
  <2>2. Count(x \in loaded') + HeldCount(refs', x)
          = Count(x \in loaded) + HeldCount(refs, x) - DeleteObjDrop(k, x)
    BY <1>1, DeletedOwners DEF IInv
  <2>3. DeleteObjDrop(k, x) \in Int
    BY DEF DeleteObjDrop, Dropped, Count
  <2>4. /\ WithoutDrop(keys[h], k) \in {0, 1}
        /\ WithoutDrop(keys[h], k) <= Count(Registered(k))
    BY WithoutDropBound DEF IInv
  <2>5. rc[x] = refCnt[x] - DeleteObjDrop(k, x) - IF x = k THEN WithoutDrop(keys[h], k) ELSE 0
    OBVIOUS
  <2>6. Registered(x)' <=> (Registered(x) /\ x # k)
    BY <1>2 DEF Registered, RegisteredIn
  <2>7. Count(Registered(x)') = Count(Registered(x)) - (IF x = k THEN Count(Registered(k)) ELSE 0)
    BY <2>6 DEF Count
  <2> HIDE DEF rc
  <2>8. Owners(x)' = Count(Registered(x)') + Count(x \in loaded') + HeldCount(refs', x)
        /\ Owners(x) = Count(Registered(x)) + Count(x \in loaded) + HeldCount(refs, x)
        /\ HeldCount(refs, x) \in Nat /\ HeldCount(refs', x) \in Nat
    BY OwnersSum
  <2> QED
    BY <2>1, <2>2, <2>3, <2>4, <2>5, <2>7, <2>8, CountBit
<1>4. /\ uoid \in [Key -> Uoids] /\ rc \in [Key -> Int]
      /\ Renumbered(keys[h], k) \in [Key -> IDs]
  BY <1>3, RenumberedType DEF IInv, TypeOK, Uoids
<1> HIDE DEF rc
<1>5. /\ uoid' \in [Key -> Uoids] /\ id' \in [Key -> IDs]
      /\ refCnt' \in [Key -> Nat] /\ Placed' /\ CountCoversOwners'
  BY <1>1, <1>2, <1>3, <1>4, SettledCounts
<1>6. loaded' \in SUBSET Key /\ refs' \in [Holders -> SUBSET Key]
  BY <1>1, DeletedTypes DEF IInv
<1>7. TypeOK' /\ Anchored'
  BY <1>1, <1>2, <1>5, <1>6 DEF IInv, TypeOK, Uoids, IDs, Anchored
<1> QED
  BY <1>5, <1>7 DEF IInv

\* A key moves to the end of another bucket.
LEMMA MoveKeyInv ==
  ASSUME IInv, NEW k \in Key, NEW to \in Locs, MoveKey(k, to)
  PROVE  IInv'
<1> DEFINE h == Home(k)
           d == WithoutDrop(keys[h], k)
           left == [keys EXCEPT ![h] = Without(keys[h], k)]
           u == [uoid[k] EXCEPT !.loc = to]
           b == <<to, uoid[k].type>>
           n == (Len(left[b]) + 1) % IDMod
           ren == Renumbered(keys[h], k)
<1>1. /\ keys' = [left EXCEPT ![b] = Append(@, k)]
      /\ notOpt' \in {notOpt \cup {b}, (notOpt \ {h}) \cup {b}}
      /\ uoid' = [uoid EXCEPT ![k].loc = to]
      /\ id' = [ren EXCEPT ![k] = n]
      /\ refCnt' = [refCnt EXCEPT ![k] = @ + 1 - d]
      /\ UNCHANGED <<loaded, refs, pc, cur>>
  BY DEF MoveKey, Idle
<1>2. /\ left \in [Buckets -> Seq(Key)] /\ PlacedIn(left, uoid)
      /\ \A x \in Key : RegisteredIn(left, x) <=> (Registered(x) /\ x # k)
      /\ \A t \in Types : left[<<NoLoc, t>>] = <<>>
  BY WithoutRemoves
<1>3. /\ uoid \in [Key -> Uoids] /\ uoid[k] \in Uoids
      /\ id \in [Key -> IDs] /\ refCnt \in [Key -> Nat] /\ notOpt \in SUBSET Buckets
  BY DEF IInv, TypeOK, Uoids, IDs
<1>4. u \in Uoids /\ b \in Buckets /\ b = <<u.loc, u.type>> /\ uoid' = [uoid EXCEPT ![k] = u]
  BY <1>1, <1>3 DEF Uoids, Buckets
<1>5. d \in {0, 1} /\ d <= Count(Registered(k))
  BY WithoutDropBound DEF IInv
<1>6. ren \in [Key -> IDs]
  BY RenumberedType DEF IInv
<1> HIDE DEF h, d, left, u, ren
<1>7. keys' \in [Buckets -> Seq(Key)] /\ uoid' \in [Key -> Uoids]
  <2> HIDE DEF b
  <2>1. Append(left[b], k) \in Seq(Key)
    BY <1>2, <1>4, AppendProperties
  <2>2. keys' = [left EXCEPT ![b] = Append(left[b], k)]
    BY <1>1
  <2>3. keys' \in [Buckets -> Seq(Key)]
    BY <1>2, <1>4, <2>1, <2>2
  <2> QED
    BY <1>3, <1>4, <2>3
<1>8. /\ PlacedIn(keys', uoid')
      /\ \A x \in Key : RegisteredIn(keys', x) <=> (RegisteredIn(left, x) \/ x = k)
  <2> HIDE DEF b
  <2>1. ~RegisteredIn(left, k)
    BY <1>2
  <2>2. /\ keys'[b] = Append(left[b], k)
        /\ \A c \in Buckets : c # b => keys'[c] = left[c]
    BY <1>1, <1>2, <1>4
  <2>3. uoid'[k] = u /\ \A x \in Key : x # k => uoid'[x] = uoid[x]
    BY <1>3, <1>4
  <2>4. AddedTo(left, uoid, k, u, b, keys', uoid')
    BY <1>2, <1>3, <1>4, <2>1, <2>2, <2>3 DEF AddedTo
  <2> QED
    BY <2>4, AddedIn, Zenon
<1>9. Placed' /\ Anchored'
  <2>1. ASSUME NEW t \in Types PROVE keys'[<<NoLoc, t>>] = <<>>
    <3>1. <<NoLoc, t>> \in Buckets /\ <<NoLoc, t>> # b
      BY DEF Buckets, NoLoc, Locs
    <3> QED
      BY <1>1, <1>2, <3>1
  <2> QED
    BY <1>1, <1>8, <2>1 DEF Placed, Anchored, IInv
<1>10. TypeOK'
  <2>1. n \in IDs
    <3>1. Len(left[b]) \in Nat
      BY <1>2, <1>4
    <3> QED
      BY <3>1, ModIDs
  <2> HIDE DEF n
  <2>2. id' \in [Key -> IDs]
    BY <1>1, <1>6, <2>1
  <2>3. refCnt' \in [Key -> Nat]
    <3>1. refCnt[k] + 1 - d \in Nat
      BY <1>3, <1>5
    <3> QED
      BY <1>1, <1>3, <3>1
  <2>4. notOpt' \in SUBSET Buckets
    BY <1>1, <1>3, <1>4
  <2> QED
    BY <1>1, <1>7, <2>2, <2>3, <2>4 DEF IInv, TypeOK, Uoids, IDs
<1>11. ASSUME NEW x \in Key PROVE Owners(x)' <= refCnt'[x]
  <2>1. Owners(x) <= refCnt[x] /\ refCnt[x] \in Nat
    BY <1>3 DEF IInv, CountCoversOwners
  <2>2. Registered(x)' <=> (Registered(x) \/ x = k)
    BY <1>2, <1>8 DEF Registered, RegisteredIn
  <2>3. Count(x \in loaded') = Count(x \in loaded) /\ HeldCount(refs', x) = HeldCount(refs, x)
    BY <1>1
  <2>4. CASE x = k
    <3>1. Count(Registered(x)') = 1
      BY <2>2, <2>4 DEF Count
    <3>2. refCnt'[x] = refCnt[x] + 1 - d
      BY <1>1, <1>3, <2>4
    <3>3. d <= Count(Registered(x))
      BY <1>5, <2>4
    <3>4. /\ Owners(x) = Count(Registered(x)) + Count(x \in loaded) + HeldCount(refs, x)
          /\ Owners(x)' = Count(Registered(x)') + Count(x \in loaded') + HeldCount(refs', x)
          /\ HeldCount(refs, x) \in Nat /\ HeldCount(refs', x) \in Nat
      BY OwnersSum
    <3> QED
      BY <1>5, <2>1, <2>3, <3>1, <3>2, <3>3, <3>4, CountBit
  <2>5. CASE x # k
    <3>1. Count(Registered(x)') = Count(Registered(x))
      BY <2>2, <2>5 DEF Count
    <3>2. refCnt'[x] = refCnt[x]
      BY <1>1, <1>3, <2>5
    <3> QED
      BY <2>1, <2>3, <3>1, <3>2, OwnersSum
  <2> QED
    BY <2>4, <2>5
<1> QED
  BY <1>9, <1>10, <1>11 DEF IInv, CountCoversOwners

\* Two sequences one behind the other hold the keys of both.
LEMMA ConcatRange ==
  ASSUME NEW s \in Seq(Key), NEW t \in Seq(Key)
  PROVE  /\ s \o t \in Seq(Key) /\ Range(s \o t) = Range(s) \cup Range(t)
         /\ IsInjective(s) /\ IsInjective(t) /\ Range(s) \cap Range(t) = {}
              => IsInjective(s \o t)
<1> DEFINE q == s \o t
<1>1. /\ q \in Seq(Key) /\ Len(q) = Len(s) + Len(t)
      /\ Len(s) \in Nat /\ Len(t) \in Nat
      /\ \A j \in 1..Len(s) : q[j] = s[j]
      /\ \A j \in 1..Len(t) : q[Len(s) + j] = t[j]
  BY ConcatProperties
<1> HIDE DEF q
<1>2. \A j \in 1..Len(q) : j \in 1..Len(s) \/ (j - Len(s) \in 1..Len(t) /\ j = Len(s) + (j - Len(s)))
  BY <1>1
<1>3. Range(q) \subseteq Range(s) \cup Range(t)
  <2>1. ASSUME NEW j \in 1..Len(q) PROVE q[j] \in Range(s) \cup Range(t)
    <3>1. CASE j \in 1..Len(s)
      BY <1>1, <3>1 DEF Range
    <3>2. CASE j - Len(s) \in 1..Len(t) /\ j = Len(s) + (j - Len(s))
      <4>1. q[j] = t[j - Len(s)]
        BY <1>1, <3>2
      <4> QED
        BY <3>2, <4>1 DEF Range
    <3> QED
      BY <1>2, <3>1, <3>2
  <2> QED
    BY <1>1, <2>1 DEF Range
<1>4. Range(s) \cup Range(t) \subseteq Range(q)
  <2>1. ASSUME NEW j \in 1..Len(s) PROVE s[j] \in Range(q)
    <3>1. j \in 1..Len(q) /\ q[j] = s[j]
      BY <1>1
    <3> QED
      BY <1>1, <3>1 DEF Range
  <2>2. ASSUME NEW j \in 1..Len(t) PROVE t[j] \in Range(q)
    <3>1. Len(s) + j \in 1..Len(q) /\ q[Len(s) + j] = t[j]
      BY <1>1
    <3> QED
      BY <1>1, <3>1 DEF Range
  <2> QED
    BY <2>1, <2>2 DEF Range
<1>5. ASSUME IsInjective(s), IsInjective(t), Range(s) \cap Range(t) = {},
             NEW i \in 1..Len(q), NEW j \in 1..Len(q), q[i] = q[j]
      PROVE  i = j
  <2>1. CASE i \in 1..Len(s) /\ j \in 1..Len(s)
    BY <1>1, <1>5, <2>1 DEF IsInjective
  <2>2. ASSUME NEW m \in 1..Len(s), NEW o \in 1..Len(q), o - Len(s) \in 1..Len(t), q[m] = q[o]
        PROVE  FALSE
    <3>1. s[m] \in Range(s) /\ t[o - Len(s)] \in Range(t)
      BY <2>2 DEF Range
    <3>2. q[o] = t[o - Len(s)] /\ q[m] = s[m]
      BY <1>1, <2>2
    <3> QED
      BY <1>5, <2>2, <3>1, <3>2
  <2>3. CASE i - Len(s) \in 1..Len(t) /\ j - Len(s) \in 1..Len(t)
    <3>1. t[i - Len(s)] = t[j - Len(s)]
      BY <1>1, <1>2, <1>5, <2>3
    <3>2. i - Len(s) = j - Len(s)
      BY <1>5, <2>3, <3>1 DEF IsInjective
    <3> QED
      BY <1>1, <3>2
  <2>4. CASE i \in 1..Len(s) /\ j - Len(s) \in 1..Len(t)
    BY <1>1, <1>5, <2>2, <2>4
  <2>5. CASE j \in 1..Len(s) /\ i - Len(s) \in 1..Len(t)
    BY <1>1, <1>5, <2>2, <2>5
  <2>6. /\ i \in 1..Len(s) \/ i - Len(s) \in 1..Len(t)
        /\ j \in 1..Len(s) \/ j - Len(s) \in 1..Len(t)
    BY <1>2
  <2> QED
    BY <2>1, <2>3, <2>4, <2>5, <2>6, Zenon
<1>6. IsInjective(s) /\ IsInjective(t) /\ Range(s) \cap Range(t) = {} => IsInjective(q)
  BY <1>1, <1>5 DEF IsInjective
<1> QED
  BY <1>1, <1>3, <1>4, <1>6 DEF q

\* ChangeLocation to a location that is another one.
LEMMA ChangeLocationInv ==
  ASSUME IInv, NEW from \in Locs, NEW to \in Locs, ChangeLocation(from, to)
  PROVE  IInv'
<1> DEFINE moved(k) == \E t \in Types : k \in Range(keys[<<from, t>>])
           pos(k) == Position(keys[Home(k)], k)
           n(k) == (Len(keys[<<to, uoid[k].type>>]) + pos(k)) % IDMod
<1>1. /\ from # to
      /\ keys' = [b \in Buckets |->
                    CASE b[1] = from -> <<>>
                      [] b[1] = to -> keys[b] \o keys[<<from, b[2]>>]
                      [] OTHER -> keys[b]]
      /\ notOpt' = {b \in notOpt : b[1] # from} \cup {<<to, t>> : t \in Types}
      /\ uoid' = [k \in Key |-> IF moved(k) THEN [uoid[k] EXCEPT !.loc = to] ELSE uoid[k]]
      /\ id' = [k \in Key |-> IF moved(k) THEN n(k) ELSE id[k]]
      /\ UNCHANGED <<refCnt, loaded, refs, pc, cur>>
  BY DEF ChangeLocation, Idle
<1>2. /\ keys \in [Buckets -> Seq(Key)] /\ uoid \in [Key -> Uoids] /\ id \in [Key -> IDs]
      /\ notOpt \in SUBSET Buckets
      /\ \A b \in Buckets : IsInjective(keys[b])
      /\ \A b \in Buckets : \A k \in Range(keys[b]) : <<uoid[k].loc, uoid[k].type>> = b
  BY DEF IInv, TypeOK, Uoids, IDs, Placed, PlacedIn
<1>3. \A t \in Types : <<from, t>> \in Buckets /\ <<to, t>> \in Buckets
  BY DEF Buckets
<1>4. ASSUME NEW k \in Key
      PROVE  moved(k) <=> (Registered(k) /\ uoid[k].loc = from)
  <2>1. ASSUME Registered(k), uoid[k].loc = from PROVE moved(k)
    <3>1. k \in Range(keys[<<from, uoid[k].type>>]) /\ uoid[k].type \in Types
      BY <1>2, <2>1, RegisteredAtHome DEF Home, Uoids, IInv
    <3> QED
      BY <3>1
  <2>2. ASSUME moved(k) PROVE Registered(k) /\ uoid[k].loc = from
    BY <1>2, <1>3, <2>2 DEF Registered
  <2> QED
    BY <2>1, <2>2
<1> HIDE DEF moved
<1>5. ASSUME NEW b \in Buckets
      PROVE  /\ keys'[b] \in Seq(Key) /\ IsInjective(keys'[b])
             /\ Range(keys'[b]) =
                  IF b[1] = from THEN {}
                  ELSE IF b[1] = to THEN Range(keys[b]) \cup Range(keys[<<from, b[2]>>])
                  ELSE Range(keys[b])
  <2>0. b[2] \in Types /\ b = <<b[1], b[2]>>
    BY DEF Buckets
  <2>1. CASE b[1] = from
    <3>1. keys'[b] = <<>>
      BY <1>1, <2>1
    <3> QED
      BY <2>1, <3>1 DEF IsInjective, Range
  <2>2. CASE b[1] = to
    <3>1. keys'[b] = keys[b] \o keys[<<from, b[2]>>]
      BY <1>1, <2>2
    <3>2. <<from, b[2]>> \in Buckets /\ b # <<from, b[2]>>
      BY <1>1, <1>3, <2>0, <2>2
    <3>3. Range(keys[b]) \cap Range(keys[<<from, b[2]>>]) = {}
      BY <1>2, <3>2
    <3>4. keys[b] \in Seq(Key) /\ keys[<<from, b[2]>>] \in Seq(Key)
      BY <1>2, <3>2
    <3>5. IsInjective(keys[b]) /\ IsInjective(keys[<<from, b[2]>>])
      BY <1>2, <3>2
    <3>6. /\ keys'[b] \in Seq(Key) /\ IsInjective(keys'[b])
          /\ Range(keys'[b]) = Range(keys[b]) \cup Range(keys[<<from, b[2]>>])
      BY <3>1, <3>3, <3>4, <3>5, ConcatRange
    <3>7. b[1] # from
      BY <1>1, <2>2
    <3> QED
      BY <2>2, <3>6, <3>7
  <2>3. CASE b[1] # from /\ b[1] # to
    <3>1. keys'[b] = keys[b]
      BY <1>1, <2>3
    <3> QED
      BY <1>2, <2>3, <3>1
  <2> QED
    BY <2>1, <2>2, <2>3
<1>6. keys' \in [Buckets -> Seq(Key)]
  <2>1. keys' = [b \in Buckets |-> keys'[b]]
    BY <1>1
  <2> QED
    BY <1>5, <2>1
<1>7. ASSUME NEW b \in Buckets, NEW x \in Range(keys'[b])
      PROVE  <<uoid'[x].loc, uoid'[x].type>> = b /\ Registered(x)
  <2>0. b[2] \in Types /\ b = <<b[1], b[2]>> /\ x \in Key
    <3>1. keys'[b] \in Seq(Key)
      BY <1>5
    <3>2. x \in Key
      BY <3>1 DEF Range
    <3> QED
      BY <3>2 DEF Buckets
  <2>1. CASE x \in Range(keys[b]) /\ b[1] # from
    <3>1. ~moved(x) /\ <<uoid[x].loc, uoid[x].type>> = b /\ Registered(x)
      BY <1>2, <1>4, <2>0, <2>1 DEF Registered
    <3> QED
      BY <1>1, <2>0, <3>1
  <2>2. CASE x \in Range(keys[<<from, b[2]>>]) /\ b[1] = to
    <3>1. <<uoid[x].loc, uoid[x].type>> = <<from, b[2]>> /\ Registered(x)
      BY <1>2, <1>3, <2>0, <2>2 DEF Registered
    <3>2. uoid[x].loc = from /\ uoid[x].type = b[2] /\ moved(x)
      BY <1>4, <2>0, <3>1
    <3>3. uoid'[x] = [uoid[x] EXCEPT !.loc = to] /\ uoid[x] \in Uoids
      BY <1>1, <1>2, <2>0, <3>2
    <3> QED
      BY <2>0, <2>2, <3>1, <3>2, <3>3 DEF Uoids
  <2>3. b[1] # from
    <3>1. b[1] = from => Range(keys'[b]) = {}
      BY <1>5
    <3> QED
      BY <3>1
  <2>4. CASE b[1] = to
    <3>1. x \in Range(keys[b]) \/ x \in Range(keys[<<from, b[2]>>])
      BY <1>5, <2>3, <2>4
    <3> QED
      BY <2>1, <2>2, <2>3, <2>4, <3>1
  <2>5. CASE b[1] # to
    <3>1. x \in Range(keys[b])
      BY <1>5, <2>3, <2>5
    <3> QED
      BY <2>1, <2>3, <3>1
  <2> QED
    BY <2>4, <2>5
<1>8. Placed'
  BY <1>5, <1>7 DEF Placed, PlacedIn
<1>9. ASSUME NEW x \in Key PROVE Registered(x)' => Registered(x)
  BY <1>7 DEF Registered
<1>10. Anchored'
  <2>1. ASSUME NEW t \in Types PROVE keys'[<<NoLoc, t>>] = <<>>
    <3>1. <<NoLoc, t>> \in Buckets /\ <<NoLoc, t>>[1] # from /\ <<NoLoc, t>>[1] # to
      BY DEF Buckets, NoLoc, Locs
    <3>2. keys'[<<NoLoc, t>>] = keys[<<NoLoc, t>>]
      BY <1>1, <3>1
    <3> QED
      BY <3>2 DEF IInv, Anchored
  <2> QED
    BY <1>1, <2>1 DEF IInv, Anchored
<1>11. TypeOK'
  <2>1. ASSUME NEW k \in Key, moved(k) PROVE n(k) \in IDs
    <3>1. /\ k \in Range(keys[Home(k)]) /\ Home(k) \in Buckets
          /\ <<to, uoid[k].type>> \in Buckets
      BY <1>2, <1>3, <1>4, <2>1, RegisteredAtHome, HomeIsBucket DEF IInv, Uoids
    <3>2. keys[Home(k)] \in Seq(Key) /\ keys[<<to, uoid[k].type>>] \in Seq(Key)
      BY <1>2, <3>1
    <3>3. pos(k) \in Nat
      BY <3>1, <3>2 DEF Position, Range
    <3>4. Len(keys[<<to, uoid[k].type>>]) + pos(k) \in Nat
      BY <3>2, <3>3
    <3> QED
      BY <3>4, ModIDs
  <2>2. id' \in [Key -> IDs]
    BY <1>1, <1>2, <2>1
  <2>3. uoid' \in [Key -> Uoids]
    <3>1. ASSUME NEW k \in Key PROVE [uoid[k] EXCEPT !.loc = to] \in Uoids
      BY <1>2 DEF Uoids
    <3> QED
      BY <1>1, <1>2, <3>1
  <2>4. notOpt' \in SUBSET Buckets
    BY <1>1, <1>2, <1>3
  <2> QED
    BY <1>1, <1>6, <2>2, <2>3, <2>4 DEF IInv, TypeOK, Uoids, IDs
<1>12. ASSUME NEW x \in Key PROVE Owners(x)' <= refCnt'[x]
  <2>1. Owners(x) <= refCnt[x] /\ refCnt[x] \in Nat
    BY DEF IInv, CountCoversOwners, TypeOK
  <2>2. Count(Registered(x)') <= Count(Registered(x))
    BY <1>9 DEF Count
  <2>3. Count(x \in loaded') = Count(x \in loaded) /\ HeldCount(refs', x) = HeldCount(refs, x)
        /\ refCnt' = refCnt
    BY <1>1
  <2> QED
    BY <2>1, <2>2, <2>3, OwnersSum, CountBit
<1> QED
  BY <1>8, <1>10, <1>11, <1>12 DEF IInv, CountCoversOwners

\* ChangeLocation where only the flags of the location differ.
LEMMA ChangeLocationFlagsInv ==
  ASSUME IInv, NEW l \in Locs, ChangeLocationFlags(l)
  PROVE  IInv'
<1> DEFINE here(k) == \E t \in Types : k \in Range(keys[<<l, t>>])
           rc == [k \in Key |-> refCnt[k] - Count(here(k))]
<1>1. /\ keys' = [b \in Buckets |-> IF b[1] = l THEN <<>> ELSE keys[b]]
      /\ notOpt' = {b \in notOpt : b[1] # l}
      /\ Settle(uoid, id, rc)
      /\ UNCHANGED <<loaded, refs, pc, cur>>
  BY DEF ChangeLocationFlags, Idle
<1>2. /\ keys \in [Buckets -> Seq(Key)] /\ uoid \in [Key -> Uoids] /\ id \in [Key -> IDs]
      /\ refCnt \in [Key -> Nat]
  BY DEF IInv, TypeOK, Uoids, IDs
<1>3. keys' \in [Buckets -> Seq(Key)]
  BY <1>1, <1>2
<1>4. ASSUME NEW b \in Buckets
      PROVE  /\ IsInjective(keys'[b])
             /\ \A x \in Range(keys'[b]) : b[1] # l /\ x \in Range(keys[b])
  <2>1. CASE b[1] = l
    <3>1. keys'[b] = <<>>
      BY <1>1, <2>1
    <3> QED
      BY <3>1 DEF IsInjective, Range
  <2>2. CASE b[1] # l
    BY <1>1, <2>2 DEF IInv, Placed, PlacedIn
  <2> QED
    BY <2>1, <2>2
<1>5. PlacedIn(keys', uoid)
  BY <1>4 DEF PlacedIn, IInv, Placed
<1>6. ASSUME NEW x \in Key
      PROVE  /\ Registered(x)' => Registered(x) /\ ~here(x)
             /\ here(x) => Registered(x)
  <2>1. ASSUME Registered(x)' PROVE Registered(x) /\ ~here(x)
    <3>1. PICK b \in Buckets : b[1] # l /\ x \in Range(keys[b])
      BY <1>4, <2>1 DEF Registered
    <3>2. ASSUME NEW t \in Types, x \in Range(keys[<<l, t>>]) PROVE FALSE
      <4>1. <<l, t>> \in Buckets /\ <<l, t>> # b
        BY <3>1 DEF Buckets
      <4> QED
        BY <3>1, <3>2, <4>1 DEF IInv, Placed, PlacedIn
    <3> QED
      BY <3>1, <3>2 DEF Registered
  <2>2. ASSUME here(x) PROVE Registered(x)
    BY <2>2 DEF Registered, Buckets
  <2> QED
    BY <2>1, <2>2
<1> HIDE DEF here
<1>7. ASSUME NEW x \in Key PROVE rc[x] \in Int /\ Owners(x)' <= rc[x]
  <2>1. Owners(x) <= refCnt[x] /\ refCnt[x] \in Nat
    BY <1>2 DEF IInv, CountCoversOwners
  <2>2. Count(Registered(x)') <= Count(Registered(x)) - Count(here(x))
    BY <1>6 DEF Count
  <2>3. rc[x] = refCnt[x] - Count(here(x))
    OBVIOUS
  <2>4. Count(x \in loaded') = Count(x \in loaded) /\ HeldCount(refs', x) = HeldCount(refs, x)
    BY <1>1
  <2> HIDE DEF rc
  <2> QED
    BY <2>1, <2>2, <2>3, <2>4, OwnersSum, CountBit
<1>8. rc \in [Key -> Int]
  BY <1>7
<1> HIDE DEF rc
<1>9. /\ uoid' \in [Key -> Uoids] /\ id' \in [Key -> IDs]
      /\ refCnt' \in [Key -> Nat] /\ Placed' /\ CountCoversOwners'
  BY <1>1, <1>2, <1>3, <1>5, <1>7, <1>8, SettledCounts
<1>10. TypeOK'
  BY <1>1, <1>3, <1>9 DEF IInv, TypeOK, Uoids, IDs
<1>11. Anchored'
  BY <1>1 DEF IInv, Anchored, Buckets
<1> QED
  BY <1>9, <1>10, <1>11 DEF IInv

\* A bucket that is sorted holds the keys it held.
LEMMA ReorderedBuckets ==
  ASSUME IInv, NEW l \in Locs, NEW leq, NEW new \in Rearrangements(l, leq),
         Reordered(l, new)
  PROVE  /\ \A t \in Types : new[t] \in Seq(Key)
         /\ \A b \in Buckets : /\ keys'[b] \in Seq(Key) /\ IsInjective(keys'[b])
                               /\ Range(keys'[b]) = Range(keys[b])
<1>1. /\ keys' = [b \in Buckets |-> IF b[1] = l THEN new[b[2]] ELSE keys[b]]
      /\ id' = [k \in Key |->
                  IF uoid[k].loc = l /\ k \in Range(new[uoid[k].type])
                  THEN Position(new[uoid[k].type], k) % IDMod ELSE id[k]]
  BY DEF Reordered
<1>2. /\ keys \in [Buckets -> Seq(Key)] /\ uoid \in [Key -> Uoids] /\ id \in [Key -> IDs]
      /\ \A b \in Buckets : IsInjective(keys[b])
  BY DEF IInv, TypeOK, Uoids, IDs, Placed, PlacedIn
<1>3. ASSUME NEW t \in Types
      PROVE  /\ new[t] \in Seq(Key) /\ IsInjective(new[t])
             /\ Range(new[t]) = Range(keys[<<l, t>>])
  <2>1. new[t] \in Sortings(keys[<<l, t>>], leq)
    BY DEF Rearrangements
  <2>2. <<l, t>> \in Buckets
    BY DEF Buckets
  <2>3. keys[<<l, t>>] \in Seq(Key) /\ IsInjective(keys[<<l, t>>])
    BY <1>2, <2>2
  <2> QED
    BY <2>1, <2>3, SortingRange, Zenon
<1>4. ASSUME NEW b \in Buckets
      PROVE  /\ keys'[b] \in Seq(Key) /\ IsInjective(keys'[b])
             /\ Range(keys'[b]) = Range(keys[b])
  <2>1. b[2] \in Types /\ b = <<b[1], b[2]>>
    BY DEF Buckets
  <2>2. CASE b[1] = l
    <3>1. keys'[b] = new[b[2]] /\ b = <<l, b[2]>>
      BY <1>1, <2>1, <2>2
    <3> QED
      BY <1>3, <2>1, <3>1
  <2>3. CASE b[1] # l
    <3>1. keys'[b] = keys[b]
      BY <1>1, <2>3
    <3> QED
      BY <1>2, <3>1
  <2> QED
    BY <2>2, <2>3
<1> QED
  BY <1>3, <1>4

\* sortKeys and optimizeKeys: the buckets of a page are permuted and renumbered.
LEMMA ReorderedInv ==
  ASSUME IInv, NEW l \in Locs, NEW leq, NEW new \in Rearrangements(l, leq),
         Reordered(l, new), UNCHANGED <<uoid, refCnt, loaded, refs>>
  PROVE  /\ keys' \in [Buckets -> Seq(Key)] /\ id' \in [Key -> IDs] /\ Placed'
         /\ \A t \in Types : keys'[<<NoLoc, t>>] = <<>>
         /\ CountCoversOwners'
<1>1. /\ keys' = [b \in Buckets |-> IF b[1] = l THEN new[b[2]] ELSE keys[b]]
      /\ id' = [k \in Key |->
                  IF uoid[k].loc = l /\ k \in Range(new[uoid[k].type])
                  THEN Position(new[uoid[k].type], k) % IDMod ELSE id[k]]
  BY DEF Reordered
<1>2. /\ keys \in [Buckets -> Seq(Key)] /\ uoid \in [Key -> Uoids] /\ id \in [Key -> IDs]
      /\ \A b \in Buckets : IsInjective(keys[b])
  BY DEF IInv, TypeOK, Uoids, IDs, Placed, PlacedIn
<1>3. ASSUME NEW t \in Types PROVE new[t] \in Seq(Key)
  BY ReorderedBuckets
<1>4. ASSUME NEW b \in Buckets
      PROVE  /\ keys'[b] \in Seq(Key) /\ IsInjective(keys'[b])
             /\ Range(keys'[b]) = Range(keys[b])
  BY ReorderedBuckets
<1>5. keys' \in [Buckets -> Seq(Key)]
  <2>1. keys' = [b \in Buckets |-> keys'[b]]
    BY <1>1
  <2> QED
    BY <1>4, <2>1
<1>6. Placed'
  BY <1>4 DEF IInv, Placed, PlacedIn
<1>7. id' \in [Key -> IDs]
  <2>1. ASSUME NEW k \in Key, k \in Range(new[uoid[k].type])
        PROVE  Position(new[uoid[k].type], k) % IDMod \in IDs
    <3>1. uoid[k].type \in Types
      BY <1>2 DEF Uoids
    <3>2. new[uoid[k].type] \in Seq(Key)
      BY <1>3, <3>1
    <3>3. Position(new[uoid[k].type], k) \in Nat
      BY <2>1, <3>2 DEF Position, Range
    <3> QED
      BY <3>3, ModIDs
  <2> QED
    BY <1>1, <1>2, <2>1
<1>8. ASSUME NEW t \in Types PROVE keys'[<<NoLoc, t>>] = <<>>
  <2>1. <<NoLoc, t>> \in Buckets /\ <<NoLoc, t>>[1] # l
    BY DEF Buckets, NoLoc, Locs
  <2>2. keys'[<<NoLoc, t>>] = keys[<<NoLoc, t>>]
    BY <1>1, <2>1
  <2> QED
    BY <2>2 DEF IInv, Anchored
<1>9. ASSUME NEW x \in Key PROVE Owners(x)' <= refCnt'[x]
  <2>1. Owners(x) <= refCnt[x] /\ refCnt[x] \in Nat /\ refCnt' = refCnt
    BY DEF IInv, CountCoversOwners, TypeOK
  <2>2. Registered(x)' <=> Registered(x)
    BY <1>4 DEF Registered
  <2>3. Count(Registered(x)') = Count(Registered(x))
    BY <2>2 DEF Count
  <2> QED
    BY <2>1, <2>3, OwnersSum, CountBit
<1> QED
  BY <1>5, <1>6, <1>7, <1>8, <1>9 DEF CountCoversOwners

\* optimizeKeys.
LEMMA OptimizeKeysInv ==
  ASSUME IInv, NEW l \in Locs, OptimizeKeys(l)
  PROVE  IInv'
<1>1. /\ UNCHANGED <<uoid, refCnt, loaded, refs, pc, cur>>
      /\ notOpt' = {b \in notOpt : b[1] # l \/ keys[b] = <<>>}
  BY DEF OptimizeKeys, Idle
<1>2. PICK new \in Rearrangements(l, LeqName) : Reordered(l, new)
  BY DEF OptimizeKeys
<1>3. /\ keys' \in [Buckets -> Seq(Key)] /\ id' \in [Key -> IDs] /\ Placed'
      /\ \A t \in Types : keys'[<<NoLoc, t>>] = <<>>
      /\ CountCoversOwners'
  BY <1>1, <1>2, ReorderedInv
<1>4. TypeOK' /\ Anchored'
  BY <1>1, <1>3 DEF IInv, TypeOK, IDs, Anchored
<1> QED
  BY <1>3, <1>4 DEF IInv

\* The sort at the end of ReadKeyring.
LEMMA KeyringSortInv == ASSUME IInv, KeyringSort PROVE IInv'
<1>1. /\ pc' = "idle" /\ cur' = [loc |-> NoLoc, type |-> 1, idx |-> 1]
      /\ UNCHANGED <<uoid, refCnt, loaded, refs>>
      /\ cur.loc \in Locs
  BY DEF KeyringSort, IInv, Anchored
<1>2. cur' \in [loc : Locs \cup {NoLoc}, type : Types, idx : Nat \ {0}]
  BY <1>1, LocAssumption DEF Types
<1>3. CASE UNCHANGED <<registry, id>>
  <2>1. TypeOK' /\ Placed' /\ Anchored'
    BY <1>1, <1>2, <1>3 DEF IInv, TypeOK, Placed, PlacedIn, Anchored, registry
  <2>2. ASSUME NEW x \in Key PROVE Owners(x)' <= refCnt'[x]
    BY <1>1, <1>3 DEF IInv, CountCoversOwners, Owners, Registered, registry
  <2> QED
    BY <2>1, <2>2 DEF IInv, CountCoversOwners
<1>4. CASE SortKeys(cur.loc)
  <2>1. PICK new \in Rearrangements(cur.loc, LeqID) :
          Reordered(cur.loc, new) /\ notOpt' = notOpt \cup Misordered(cur.loc, new)
    BY <1>4 DEF SortKeys
  <2>2. /\ keys' \in [Buckets -> Seq(Key)] /\ id' \in [Key -> IDs] /\ Placed'
        /\ \A t \in Types : keys'[<<NoLoc, t>>] = <<>>
        /\ CountCoversOwners'
    BY <1>1, <2>1, ReorderedInv
  <2>3. Misordered(cur.loc, new) \in SUBSET Buckets
    BY <1>1 DEF Misordered, Buckets
  <2>4. TypeOK' /\ Anchored'
    BY <1>1, <1>2, <2>1, <2>2, <2>3 DEF IInv, TypeOK, IDs, Anchored
  <2> QED
    BY <2>2, <2>4 DEF IInv
<1> QED
  BY <1>3, <1>4 DEF KeyringSort

\* A key is erased at the iterator of delAll or cleanupKeys.
LEMMA EraseHereInv ==
  ASSUME IInv, EraseHere, cur.idx <= Len(Bucket)
  PROVE  IInv'
<1> DEFINE k == Here
           b == <<cur.loc, cur.type>>
           d == EraseDrop(keys[b], cur.idx)
           rc == [x \in Key |-> refCnt[x] - DeleteObjDrop(k, x) - IF x = k THEN d ELSE 0]
<1>1. /\ b \in Buckets /\ keys[b] \in Seq(Key) /\ cur.idx \in 1..Len(keys[b])
      /\ k = keys[b][cur.idx] /\ keys \in [Buckets -> Seq(Key)]
      /\ uoid \in [Key -> Uoids] /\ id \in [Key -> IDs] /\ refCnt \in [Key -> Nat]
  BY DEF IInv, TypeOK, Buckets, Bucket, Here, Uoids, IDs
<1>2. /\ keys' = [keys EXCEPT ![b] = RemoveAt(@, cur.idx)]
      /\ Settle(uoid, id, rc) /\ DeleteObj(k)
      /\ UNCHANGED <<notOpt, pc, cur>>
  BY DEF EraseHere, AfterErase, Bucket
<1> HIDE DEF b, k
<1>3. k \in Key /\ Home(k) = b /\ Registered(k) /\ IsInjective(keys[b])
  <2>1. DOMAIN keys[b] = 1..Len(keys[b]) /\ keys[b][cur.idx] \in Key
    BY <1>1
  <2>2. k \in Range(keys[b]) /\ k \in Key
    BY <1>1, <2>1 DEF Range
  <2> QED
    BY <1>1, <2>2 DEF IInv, Placed, PlacedIn, Home, Registered
<1>4. /\ RemoveAt(keys[b], cur.idx) \in Seq(Key)
      /\ IsInjective(RemoveAt(keys[b], cur.idx))
      /\ Range(RemoveAt(keys[b], cur.idx)) = Range(keys[b]) \ {k}
  BY <1>1, <1>3, RemoveAtRange
<1>5. keys' \in [Buckets -> Seq(Key)]
  BY <1>1, <1>2, <1>4
<1>6. /\ PlacedIn(keys', uoid)
      /\ \A x \in Key : RegisteredIn(keys', x) <=> (Registered(x) /\ x # k)
  <2>1. /\ keys'[b] = RemoveAt(keys[b], cur.idx)
        /\ \A c \in Buckets : c # b => keys'[c] = keys[c]
    BY <1>1, <1>2
  <2>2. RemovedFrom(k, b, keys')
    BY <1>1, <1>3, <1>4, <2>1 DEF RemovedFrom
  <2>3. Placed
    BY DEF IInv
  <2> QED
    BY <2>2, <2>3, RemovedIn, ZenonT(40)
<1>7. ASSUME NEW x \in Key PROVE rc[x] \in Int /\ Owners(x)' <= rc[x]
  <2>1. Owners(x) <= refCnt[x] /\ refCnt[x] \in Nat
    BY <1>1 DEF IInv, CountCoversOwners
  <2>2. Count(x \in loaded') + HeldCount(refs', x)
          = Count(x \in loaded) + HeldCount(refs, x) - DeleteObjDrop(k, x)
    BY <1>2, <1>3, DeletedOwners DEF IInv
  <2>3. DeleteObjDrop(k, x) \in Int
    BY DEF DeleteObjDrop, Dropped, Count
  <2>4. d \in {0, 1}
    BY DEF EraseDrop, Count
  <2>5. rc[x] = refCnt[x] - DeleteObjDrop(k, x) - IF x = k THEN d ELSE 0
    OBVIOUS
  <2>6. Registered(x)' <=> (Registered(x) /\ x # k)
    BY <1>6 DEF Registered, RegisteredIn
  <2>7. Count(Registered(x)') = Count(Registered(x)) - (IF x = k THEN 1 ELSE 0)
    BY <1>3, <2>6 DEF Count
  <2> HIDE DEF rc, d
  <2>8. Owners(x)' = Count(Registered(x)') + Count(x \in loaded') + HeldCount(refs', x)
        /\ Owners(x) = Count(Registered(x)) + Count(x \in loaded) + HeldCount(refs, x)
        /\ HeldCount(refs, x) \in Nat /\ HeldCount(refs', x) \in Nat
    BY OwnersSum
  <2>11. /\ Count(Registered(x)) \in {0, 1} /\ Count(Registered(x)') \in {0, 1}
         /\ Count(x \in loaded) \in {0, 1} /\ Count(x \in loaded') \in {0, 1}
    BY CountBit
  <2>9. CASE x = k
    <3>1. rc[x] = refCnt[x] - DeleteObjDrop(k, x) - d
      BY <2>5, <2>9
    <3>2. Count(Registered(x)') = Count(Registered(x)) - 1
      BY <2>7, <2>9
    <3> QED
      BY <2>1, <2>2, <2>3, <2>4, <2>8, <2>11, <3>1, <3>2
  <2>10. CASE x # k
    <3>1. rc[x] = refCnt[x] - DeleteObjDrop(k, x) - 0
      BY <2>5, <2>10
    <3>2. Count(Registered(x)') = Count(Registered(x)) - 0
      BY <2>7, <2>10
    <3> QED
      BY <2>1, <2>2, <2>3, <2>8, <2>11, <3>1, <3>2
  <2> QED
    BY <2>9, <2>10
<1>8. rc \in [Key -> Int]
  BY <1>7
<1> HIDE DEF rc
<1>9. /\ uoid' \in [Key -> Uoids] /\ id' \in [Key -> IDs]
      /\ refCnt' \in [Key -> Nat] /\ Placed' /\ CountCoversOwners'
  BY <1>1, <1>2, <1>5, <1>6, <1>7, <1>8, SettledCounts
<1>10. loaded' \in SUBSET Key /\ refs' \in [Holders -> SUBSET Key]
  BY <1>2, <1>3, DeletedTypes DEF IInv
<1>11. Anchored'
  <2>1. ASSUME NEW t \in Types PROVE keys'[<<NoLoc, t>>] = <<>>
    <3>1. <<NoLoc, t>> \in Buckets /\ keys[<<NoLoc, t>>] = <<>>
      BY DEF Buckets, IInv, Anchored
    <3>2. <<NoLoc, t>> # b
      <4>1. SUFFICES ASSUME keys[b] = <<>> PROVE FALSE
        BY <3>1
      <4>2. Len(keys[b]) = 0
        BY <4>1
      <4> QED
        BY <1>1, <4>2
    <3> QED
      BY <1>1, <1>2, <3>1, <3>2
  <2> QED
    BY <1>2, <2>1 DEF IInv, Anchored
<1>12. TypeOK'
  BY <1>2, <1>5, <1>9, <1>10 DEF IInv, TypeOK, Uoids, IDs
<1> QED
  BY <1>9, <1>11, <1>12 DEF IInv

\* One entry of a page's index.
LEMMA KeyringEntryInv ==
  ASSUME IInv, NEW n \in Names, NEW i \in StreamIDs, KeyringEntry(n, i)
  PROVE  IInv'
<1> DEFINE u == [loc |-> cur.loc, type |-> cur.type, name |-> n]
<1>1. PICK k \in Key :
        /\ ~Allocated(k)
        /\ keys' = AddedKeys(k, u)
        /\ notOpt' = notOpt \cup {<<u.loc, u.type>>}
        /\ uoid' = [uoid EXCEPT ![k] = u]
        /\ id' = [id EXCEPT ![k] = AddedID(u, i)]
        /\ refCnt' = [refCnt EXCEPT ![k] = 1]
  BY DEF KeyringEntry
<1>2. UNCHANGED <<loaded, refs, pc, cur>> /\ cur.loc \in Locs /\ cur.type \in Types
  BY DEF KeyringEntry, IInv, TypeOK, Anchored
<1>3. refCnt[k] = 0
  BY <1>1 DEF Allocated, IInv, TypeOK
<1>4. ~Registered(k) /\ k \notin loaded /\ HeldCount(refs, k) = 0
  BY <1>3, FreeHasNoOwner DEF IInv, HeldCount
<1>5. /\ u \in Uoids /\ <<u.loc, u.type>> \in Buckets /\ u.loc # NoLoc /\ i \in IDs
  BY <1>2, IDAssumption DEF Uoids, Buckets, IDs, NoLoc, Locs
<1> HIDE DEF u
<1>6. /\ keys' \in [Buckets -> Seq(Key)] /\ uoid' \in [Key -> Uoids] /\ Placed'
      /\ \A x \in Key : Registered(x)' <=> (Registered(x) \/ x = k)
      /\ \A t \in Types : keys'[<<NoLoc, t>>] = <<>>
  BY <1>1, <1>4, <1>5, AddedKey DEF IInv
<1>7. TypeOK'
  <2>1. AddedID(u, i) \in IDs
    BY <1>5, AddedIDType DEF IInv
  <2>2. id' \in [Key -> IDs] /\ refCnt' \in [Key -> Nat]
    BY <1>1, <2>1 DEF IInv, TypeOK, IDs
  <2>3. notOpt' \in SUBSET Buckets
    BY <1>1, <1>5 DEF IInv, TypeOK
  <2> QED
    BY <1>2, <1>6, <2>2, <2>3 DEF IInv, TypeOK, Uoids, IDs
<1>8. Anchored'
  BY <1>2, <1>6 DEF IInv, Anchored
<1>9. ASSUME NEW x \in Key PROVE Owners(x)' <= refCnt'[x]
  <2>1. Owners(x) <= refCnt[x] /\ refCnt \in [Key -> Nat]
    BY DEF IInv, CountCoversOwners, TypeOK
  <2>2. Count(x \in loaded') = Count(x \in loaded) /\ HeldCount(refs', x) = HeldCount(refs, x)
    BY <1>2
  <2>3. CASE x = k
    <3>1. HeldCount(refs', x) = 0 /\ refCnt'[x] = 1
      BY <1>1, <1>4, <2>1, <2>2, <2>3
    <3>2. Count(x \in loaded') = 0
      BY <1>4, <2>2, <2>3 DEF Count
    <3> QED
      BY <3>1, <3>2, OwnersSum, CountBit
  <2>4. CASE x # k
    <3>1. Count(Registered(x)') = Count(Registered(x))
      BY <1>6, <2>4 DEF Count
    <3>2. refCnt'[x] = refCnt[x]
      BY <1>1, <2>1, <2>4
    <3> QED
      BY <2>1, <2>2, <3>1, <3>2, OwnersSum
  <2> QED
    BY <2>3, <2>4
<1> QED
  BY <1>6, <1>7, <1>8, <1>9 DEF IInv, CountCoversOwners

\* A step of an iterator, which may change flags.
LEMMA QuietStepInv ==
  ASSUME IInv, UNCHANGED <<keys, data, loaded, refs>>, notOpt' \in SUBSET Buckets,
         pc' \in {"idle", "delAll", "cleanup", "keyring", "sort"},
         cur' \in [loc : Locs \cup {NoLoc}, type : Types, idx : Nat \ {0}],
         pc' \in {"keyring", "sort"} => cur'.loc \in Locs
  PROVE  IInv'
<1>1. TypeOK'
  BY DEF IInv, TypeOK, data
<1>2. Placed' /\ Anchored'
  BY DEF IInv, Placed, PlacedIn, Anchored, data
<1>3. CountCoversOwners'
  BY DEF IInv, CountCoversOwners, Owners, Registered, data
<1> QED
  BY <1>1, <1>2, <1>3 DEF IInv

\* A new name: the buckets are by location and type.
LEMMA SetNameInv ==
  ASSUME IInv, NEW k \in Key, NEW n \in Names, SetName(k, n)
  PROVE  IInv'
<1>1. /\ uoid' = [uoid EXCEPT ![k].name = n]
      /\ UNCHANGED <<keys, notOpt, id, refCnt, loaded, refs, pc, cur>>
  BY DEF SetName, Idle, registry
<1>2. uoid \in [Key -> Uoids]
  BY DEF IInv, TypeOK, Uoids
<1>3. uoid' = [uoid EXCEPT ![k] = [uoid[k] EXCEPT !.name = n]]
  BY <1>1, <1>2
<1>4. /\ [uoid[k] EXCEPT !.name = n] \in Uoids
      /\ [uoid[k] EXCEPT !.name = n].loc = uoid[k].loc
      /\ [uoid[k] EXCEPT !.name = n].type = uoid[k].type
  BY <1>2 DEF Uoids
<1>5. uoid' \in [Key -> Uoids] /\ \A x \in Key : /\ uoid'[x].loc = uoid[x].loc
                                                /\ uoid'[x].type = uoid[x].type
  <2>1. \A x \in Key : uoid'[x] = IF x = k THEN [uoid[k] EXCEPT !.name = n] ELSE uoid[x]
    BY <1>2, <1>3
  <2>2. uoid' \in [Key -> Uoids]
    BY <1>2, <1>3, <1>4
  <2> QED
    BY <1>4, <2>1, <2>2
<1>6. TypeOK'
  BY <1>1, <1>5 DEF IInv, TypeOK, Uoids
<1>7. Placed' /\ Anchored'
  BY <1>1, <1>5 DEF IInv, Placed, PlacedIn, Anchored
<1>8. CountCoversOwners'
  BY <1>1 DEF IInv, CountCoversOwners, Owners, Registered
<1> QED
  BY <1>6, <1>7, <1>8 DEF IInv

\* One step of delAll or cleanupKeys.
LEMMA IteratorInv ==
  ASSUME IInv,
         \/ \E l \in Locs : DelAll(l) \/ ReadKeyring(l)
         \/ DelAllNext \/ CleanupNext \/ Advance \/ KeyringThrows
         \/ \E listed, opt \in BOOLEAN : KeyringFlags(listed, opt)
  PROVE  IInv'
<1> DEFINE Curs == [loc : Locs \cup {NoLoc}, type : Types, idx : Nat \ {0}]
<1>1. /\ cur \in Curs /\ notOpt \in SUBSET Buckets /\ 1 \in Types
      /\ pc \in {"idle", "delAll", "cleanup", "keyring", "sort"}
      /\ pc \in {"keyring", "sort"} => cur.loc \in Locs
      /\ <<cur.loc, cur.type>> \in Buckets
      /\ NLocs \in Nat /\ NTypes \in Nat
  BY LocAssumption DEF IInv, TypeOK, Types, Anchored, Buckets
<1>2. ASSUME cur.type < NTypes
      PROVE  [cur EXCEPT !.type = @ + 1] \in Curs /\ [loc |-> cur.loc, type |-> cur.type + 1, idx |-> 1] \in Curs
  <2>1. cur.type \in Nat /\ 1 <= cur.type
    BY <1>1 DEF Types
  <2>2. cur.type + 1 \in Types
    BY <1>1, <1>2, <2>1 DEF Types
  <2>3. [cur EXCEPT !.type = @ + 1] \in Curs
    BY <1>1, <2>2
  <2>4. [loc |-> cur.loc, type |-> cur.type + 1, idx |-> 1] \in Curs
    BY <1>1, <2>2
  <2> QED
    BY <2>3, <2>4
<1>0. ASSUME NEW l \in Locs \cup {NoLoc} PROVE [loc |-> l, type |-> 1, idx |-> 1] \in Curs
  BY <1>1
<1>3. ASSUME NEW l \in Locs, DelAll(l) \/ ReadKeyring(l) PROVE IInv'
  <2>1. /\ UNCHANGED <<registry, data, loaded, refs>>
        /\ cur' = [loc |-> l, type |-> 1, idx |-> 1]
        /\ pc' \in {"delAll", "keyring"}
    BY <1>3 DEF DelAll, ReadKeyring
  <2>2. cur' \in Curs /\ cur'.loc \in Locs
    BY <1>1, <2>1
  <2> QED
    BY <1>1, <2>1, <2>2, QuietStepInv DEF registry
<1>4. CASE DelAllNext
  <2>1. /\ UNCHANGED <<registry, data, loaded, refs>> /\ pc' \in {"delAll", "cleanup"}
        /\ \/ cur.type < NTypes /\ cur' = [loc |-> cur.loc, type |-> cur.type + 1, idx |-> 1]
           \/ cur' = [loc |-> NoLoc, type |-> 1, idx |-> 1]
    BY <1>4 DEF DelAllNext
  <2>2. cur' \in Curs
    <3> HIDE DEF Curs
    <3>1. CASE cur.type < NTypes /\ cur' = [loc |-> cur.loc, type |-> cur.type + 1, idx |-> 1]
      BY <1>2, <3>1
    <3>2. CASE cur' = [loc |-> NoLoc, type |-> 1, idx |-> 1]
      BY <1>0, <3>2
    <3> QED
      BY <2>1, <3>1, <3>2
  <2> QED
    BY <1>1, <2>1, <2>2, QuietStepInv DEF registry
<1>5. CASE CleanupNext
  <2>1. /\ UNCHANGED <<keys, data, loaded, refs>> /\ pc' \in {"cleanup", "idle"}
        /\ notOpt' \in {notOpt, notOpt \ {<<cur.loc, cur.type>>}}
        /\ \/ cur.type < NTypes /\ cur' = [loc |-> cur.loc, type |-> cur.type + 1, idx |-> 1]
           \/ cur.loc < NLocs /\ cur' = [loc |-> cur.loc + 1, type |-> 1, idx |-> 1]
           \/ cur' = [loc |-> NoLoc, type |-> 1, idx |-> 1]
    BY <1>5 DEF CleanupNext
  <2>2. cur.loc < NLocs => cur.loc + 1 \in Locs
    BY <1>1 DEF Locs, NoLoc
  <2>3. cur' \in Curs
    <3> HIDE DEF Curs
    <3>1. CASE cur.type < NTypes /\ cur' = [loc |-> cur.loc, type |-> cur.type + 1, idx |-> 1]
      BY <1>2, <3>1
    <3>2. CASE cur' = [loc |-> NoLoc, type |-> 1, idx |-> 1]
      BY <1>0, <3>2
    <3>3. CASE cur.loc < NLocs /\ cur' = [loc |-> cur.loc + 1, type |-> 1, idx |-> 1]
      BY <1>0, <2>2, <3>3
    <3> QED
      BY <2>1, <3>1, <3>2, <3>3
  <2> QED
    BY <1>1, <2>1, <2>3, QuietStepInv
<1>6. CASE Advance
  <2>1. UNCHANGED <<registry, data, loaded, refs, pc>> /\ cur' = [cur EXCEPT !.idx = @ + 1]
    BY <1>6 DEF Advance
  <2>2. cur' \in Curs /\ cur'.loc = cur.loc
    BY <1>1, <2>1
  <2> QED
    BY <1>1, <2>1, <2>2, QuietStepInv DEF registry
<1>7. ASSUME NEW listed \in BOOLEAN, NEW opt \in BOOLEAN, KeyringFlags(listed, opt)
      PROVE  IInv'
  <2>1. /\ UNCHANGED <<keys, data, loaded, refs>> /\ pc = "keyring"
        /\ notOpt' \in {notOpt, notOpt \ {<<cur.loc, cur.type>>},
                        notOpt \cup {<<cur.loc, cur.type>>}}
        /\ \/ cur.type < NTypes /\ cur' = [cur EXCEPT !.type = @ + 1] /\ pc' = pc
           \/ pc' = "sort" /\ cur' = cur
    BY <1>7 DEF KeyringFlags
  <2>2. cur' \in Curs /\ cur'.loc = cur.loc
    BY <1>1, <1>2, <2>1
  <2>3. notOpt' \in SUBSET Buckets
    BY <1>1, <2>1
  <2> QED
    BY <1>1, <2>1, <2>2, <2>3, QuietStepInv
<1>8. CASE KeyringThrows
  <2>1. /\ UNCHANGED <<registry, data, loaded, refs>> /\ pc' = "idle"
        /\ cur' = [loc |-> NoLoc, type |-> 1, idx |-> 1]
    BY <1>8 DEF KeyringThrows
  <2>2. cur' \in Curs
    BY <1>0, <2>1
  <2> QED
    BY <1>1, <2>1, <2>2, QuietStepInv DEF registry
<1> QED
  BY <1>3, <1>4, <1>5, <1>6, <1>7, <1>8

\* Every call and every step of a loop preserves the invariant.
LEMMA NextInv == IInv /\ [Next]_vars => IInv'
<1> SUFFICES ASSUME IInv, [Next]_vars PROVE IInv'
  OBVIOUS
<1>1. CASE UNCHANGED vars
  <2>1. UNCHANGED <<keys, data, loaded, refs, pc, cur, notOpt>>
    BY <1>1 DEF vars, data
  <2> QED
    BY <2>1, QuietStepInv DEF IInv, TypeOK, Anchored
<1>2. ASSUME NEW h \in Holders, NEW u \in Uoid, NEW i \in StreamIDs,
             ReadKnownKey(h, u, i) \/ ReadNewKey(h, u, i)
      PROVE  IInv'
  BY <1>2, ReadKnownKeyInv, ReadNewKeyInv
<1>3. ASSUME NEW k \in Key, NEW t \in Types, NEW n \in Names, InitObject(k, t, n)
      PROVE  IInv'
  BY <1>3, InitObjectInv
<1>11. ASSUME NEW k \in Key, NEW n \in Names, SetName(k, n) PROVE IInv'
  BY <1>11, SetNameInv
<1>4. ASSUME NEW k \in Key,
             AcquireHandle(k) \/ ReleaseHandle(k) \/ LoadObject(k) \/ DelKey(k)
      PROVE  IInv'
  BY <1>4, AcquireHandleInv, ReleaseHandleInv, LoadObjectInv, DelKeyInv
<1>5. ASSUME NEW k \in Key, NEW l \in Locs, AddObject(l, k) \/ MoveKey(k, l)
      PROVE  IInv'
  BY <1>5, AddObjectInv, MoveKeyInv
<1>6. ASSUME NEW l \in Locs, NEW m \in Locs, ChangeLocation(l, m) PROVE IInv'
  BY <1>6, ChangeLocationInv
<1>7. ASSUME NEW l \in Locs,
             ChangeLocationFlags(l) \/ OptimizeKeys(l) \/ DelAll(l) \/ ReadKeyring(l)
      PROVE  IInv'
  BY <1>7, ChangeLocationFlagsInv, OptimizeKeysInv, IteratorInv
<1>8. ASSUME NEW n \in Names, NEW i \in StreamIDs, KeyringEntry(n, i) PROVE IInv'
  BY <1>8, KeyringEntryInv
<1>9. CASE Loop
  <2>1. CASE DelAllKey \/ CleanupKey
    <3>1. cur.idx <= Len(Bucket) /\ (EraseHere \/ Advance)
      BY <2>1 DEF DelAllKey, CleanupKey
    <3> QED
      BY <3>1, EraseHereInv, IteratorInv
  <2>2. CASE \/ DelAllNext \/ CleanupNext \/ KeyringThrows
             \/ \E listed, opt \in BOOLEAN : KeyringFlags(listed, opt)
    BY <2>2, IteratorInv
  <2>3. CASE KeyringSort
    BY <2>3, KeyringSortInv
  <2> QED
    BY <1>9, <2>1, <2>2, <2>3 DEF Loop
<1>10. CASE Call
  BY <1>10, <1>2, <1>3, <1>4, <1>5, <1>6, <1>7, <1>8, <1>11 DEF Call
<1> QED
  BY <1>1, <1>9, <1>10 DEF Next

-----------------------------------------------------------------------------
(* The results.                                                            *)

\* The invariant of the registry: types, placement, anchoring and counts hold
\* together in every reachable state (plKeyCollector.cpp, plKey.cpp).
THEOREM Invariance == Spec => []IInv
<1>1. Init => IInv
  BY InitInv
<1>2. IInv /\ [Next]_vars => IInv'
  BY NextInv
<1> QED
  BY <1>1, <1>2, PTL DEF Spec

\* Every variable keeps its type; in particular no reference count falls below
\* 0 (plKeyData::UnRef) and no objID leaves its 32 bits.
THEOREM TypeCorrect == Spec => []TypeOK
<1>1. IInv => TypeOK
  BY DEF IInv
<1> QED
  BY <1>1, Invariance, PTL

\* A registered key is in the bucket of its own location and type and nowhere
\* twice, whatever is added, moved, relocated, sorted and erased.
THEOREM RegistryCorrect == Spec => []RegisteredOnce
<1>1. IInv => RegisteredOnce
  BY PlacedIsRegisteredOnce DEF IInv
<1> QED
  BY <1>1, Invariance, PTL

\* No plKeyData is freed while a plKey points to it: the reference count is
\* never less than the number of owners.
THEOREM CountsCorrect == Spec => []CountCoversOwners
<1>1. IInv => CountCoversOwners
  BY DEF IInv
<1> QED
  BY <1>1, Invariance, PTL

\* cleanupKeys drops no key that the application or another object holds.
LEMMA CleanupStep ==
  ASSUME IInv, [Next]_vars, NEW k \in Key,
         pc = "cleanup", Registered(k), ~Registered(k)'
  PROVE  {h \in Holders : k \in refs[h]} = {}
<1>1. keys' # keys
  BY DEF Registered
<1>2. CleanupKey
  <2>1. ~Call
    <3>1. /\ \A h, u, i : ~ReadKnownKey(h, u, i) /\ ~ReadNewKey(h, u, i)
          /\ \A x, t, n : ~InitObject(x, t, n)
          /\ \A x, n : ~SetName(x, n)
          /\ \A n, i : ~KeyringEntry(n, i)
      BY DEF ReadKnownKey, KnownKey, ReadNewKey, InitObject, SetName, KeyringEntry, Idle
    <3>2. \A x : ~AcquireHandle(x) /\ ~ReleaseHandle(x) /\ ~LoadObject(x) /\ ~DelKey(x)
      BY DEF AcquireHandle, ReleaseHandle, LoadObject, DelKey, Idle
    <3>3. \A x, l : ~AddObject(l, x) /\ ~MoveKey(x, l) /\ ~ChangeLocation(x, l)
      BY DEF AddObject, MoveKey, ChangeLocation, Idle
    <3>4. \A l : /\ ~ChangeLocationFlags(l) /\ ~OptimizeKeys(l)
                 /\ ~DelAll(l) /\ ~ReadKeyring(l)
      BY DEF ChangeLocationFlags, OptimizeKeys, DelAll, ReadKeyring, Idle
    <3> QED
      BY <3>1, <3>2, <3>3, <3>4 DEF Call
  <2>2. ~DelAllKey /\ ~DelAllNext /\ ~CleanupNext /\ ~KeyringThrows /\ ~KeyringSort
    BY <1>1 DEF DelAllKey, DelAllNext, CleanupNext, KeyringThrows, KeyringSort
  <2>3. \A listed, opt : ~KeyringFlags(listed, opt)
    BY DEF KeyringFlags
  <2> QED
    BY <1>1, <2>1, <2>2, <2>3 DEF Next, Loop, vars
<1> DEFINE x == Here
           b == <<cur.loc, cur.type>>
<1>3. OnlyOwner(x) /\ EraseHere
  BY <1>1, <1>2 DEF CleanupKey, Advance, registry
<1>4. /\ b \in Buckets /\ keys[b] \in Seq(Key) /\ keys \in [Buckets -> Seq(Key)]
      /\ cur.idx \in 1..Len(keys[b]) /\ x = keys[b][cur.idx] /\ IsInjective(keys[b])
  BY <1>2 DEF CleanupKey, IInv, TypeOK, Buckets, Bucket, Here, Placed, PlacedIn
<1>5. keys' = [keys EXCEPT ![b] = RemoveAt(@, cur.idx)]
  BY <1>3 DEF EraseHere
<1> HIDE DEF x, b
<1>6. k = x
  <2>1. Range(RemoveAt(keys[b], cur.idx)) = Range(keys[b]) \ {x}
    BY <1>4, RemoveAtRange
  <2>2. PICK c \in Buckets : k \in Range(keys[c]) /\ k \notin Range(keys'[c])
    BY DEF Registered
  <2>3. c = b
    BY <1>4, <1>5, <2>2
  <2> QED
    BY <1>4, <1>5, <2>1, <2>2, <2>3
<1>7. HeldCount(refs, k) = 0
  <2>1. Owners(k) <= refCnt[k]
    BY DEF IInv, CountCoversOwners
  <2>2. refCnt[k] = 1 + Count(k \in loaded)
    BY <1>3, <1>6 DEF OnlyOwner, Count
  <2>3. Count(Registered(k)) = 1
    BY DEF Count
  <2>4. /\ Owners(k) = Count(Registered(k)) + Count(k \in loaded) + HeldCount(refs, k)
        /\ HeldCount(refs, k) \in Nat
    BY OwnersSum
  <2> QED
    BY <2>1, <2>2, <2>3, <2>4, CountBit
<1>8. HeldBy(refs, k) = {}
  BY <1>7, HeldByFinite, FS_EmptySet DEF HeldCount
<1> QED
  BY <1>8 DEF HeldBy

\* "We are the only remaining owner of this key": a key that cleanupKeys takes
\* out of the registry is held by no object but its own and by no handle.
THEOREM CleanupCorrect == Spec => CleanupSparesOwned
<1>1. IInv /\ [Next]_vars
        => [\A k \in Key : (pc = "cleanup" /\ Registered(k) /\ ~Registered(k)') =>
              {h \in Holders : k \in refs[h]} = {}]_vars
  BY CleanupStep
<1> QED
  BY <1>1, Invariance, PTL DEF Spec, CleanupSparesOwned

-----------------------------------------------------------------------------
(* What a step does to the registered keys.                                *)

\* A registered key is allocated.
RegisteredLives == \A k \in Key : Registered(k) => refCnt[k] # 0

LEMMA RegisteredIsLive == IInv => RegisteredLives
<1> SUFFICES ASSUME IInv, NEW k \in Key, Registered(k), refCnt[k] = 0 PROVE FALSE
  BY DEF RegisteredLives
<1> QED
  BY FreeHasNoOwner DEF IInv

\* x was registered before the step, under the same uoid.
Stays(x) == Registered(x) /\ uoid'[x] = uoid[x]
NoneAdded == \A x \in Key : Registered(x)' => Stays(x)
OneAdded ==
  \E k \in Key, u \in Uoids :
    /\ ~Registered(k) /\ <<u.loc, u.type>> \in Buckets /\ Matches(u) = {}
    /\ uoid'[k] = u
    /\ \A x \in Key : Registered(x)' => Stays(x) \/ x = k

\* A step that only takes keys away, and settles the counts.
LEMMA SettledStays ==
  ASSUME RegisteredLives', NEW ids, NEW rc, Settle(uoid, ids, rc),
         \A x \in Key : Registered(x)' => Registered(x)
  PROVE  NoneAdded
<1> SUFFICES ASSUME NEW x \in Key, Registered(x)' PROVE uoid'[x] = uoid[x]
  BY DEF NoneAdded, Stays
<1>1. refCnt'[x] # 0
  BY DEF RegisteredLives
<1> QED
  BY <1>1 DEF Settle

\* A key that add puts under a uoid that no registered key has.
LEMMA AddedAlone ==
  ASSUME IInv, NEW k \in Key, ~Registered(k),
         NEW u \in Uoids, <<u.loc, u.type>> \in Buckets, Matches(u) = {},
         keys' = AddedKeys(k, u), uoid' = [uoid EXCEPT ![k] = u]
  PROVE  OneAdded
<1>1. \A x \in Key : Registered(x)' => Registered(x) \/ x = k
  BY AddedKey DEF IInv
<1>2. uoid'[k] = u /\ \A x \in Key : x # k => uoid'[x] = uoid[x]
  BY DEF IInv, TypeOK
<1> QED
  BY <1>1, <1>2 DEF OneAdded, Stays

\* The bucket of the iterator, and the key at it.
LEMMA AtIterator ==
  ASSUME IInv, cur.idx <= Len(Bucket)
  PROVE  /\ <<cur.loc, cur.type>> \in Buckets /\ Bucket \in Seq(Key)
         /\ cur.idx \in 1..Len(Bucket) /\ IsInjective(Bucket)
         /\ Here \in Key /\ Registered(Here) /\ Home(Here) = <<cur.loc, cur.type>>
<1>1. /\ <<cur.loc, cur.type>> \in Buckets /\ Bucket \in Seq(Key)
      /\ cur.idx \in 1..Len(Bucket) /\ IsInjective(Bucket)
  BY DEF IInv, TypeOK, Buckets, Bucket, Placed, PlacedIn
<1>2. Here \in Key /\ Here \in Range(Bucket)
  BY <1>1 DEF Here, Range
<1> QED
  BY <1>1, <1>2 DEF Registered, Bucket, IInv, Placed, PlacedIn, Home

\* The registered keys after an erasure by delAll or cleanupKeys.
LEMMA ErasedKeys ==
  ASSUME IInv, EraseHere, cur.idx <= Len(Bucket)
  PROVE  /\ keys'[<<cur.loc, cur.type>>] = RemoveAt(Bucket, cur.idx)
         /\ \A b \in Buckets : b # <<cur.loc, cur.type>> => keys'[b] = keys[b]
         /\ \A x \in Key : Registered(x)' <=> (Registered(x) /\ x # Here)
<1> DEFINE b == <<cur.loc, cur.type>>
<1>1. /\ b \in Buckets /\ keys[b] \in Seq(Key) /\ keys[b] = Bucket
      /\ cur.idx \in 1..Len(keys[b]) /\ IsInjective(keys[b])
      /\ Here \in Key /\ Home(Here) = b /\ Here = keys[b][cur.idx]
      /\ keys \in [Buckets -> Seq(Key)]
  BY AtIterator DEF Bucket, Here, IInv, TypeOK
<1>2. keys' = [keys EXCEPT ![b] = RemoveAt(@, cur.idx)]
  BY DEF EraseHere
<1> HIDE DEF b
<1>3. /\ keys'[b] = RemoveAt(keys[b], cur.idx)
      /\ \A c \in Buckets : c # b => keys'[c] = keys[c]
  BY <1>1, <1>2
<1>4. /\ IsInjective(keys'[b])
      /\ Range(keys'[b]) = Range(keys[b]) \ {Here}
  BY <1>1, <1>3, RemoveAtRange
<1>5. RemovedFrom(Here, b, keys')
  BY <1>1, <1>3, <1>4 DEF RemovedFrom
<1>6. \A x \in Key : RegisteredIn(keys', x) <=> (Registered(x) /\ x # Here)
  BY <1>5, RemovedIn DEF IInv
<1> QED
  BY <1>1, <1>3, <1>6 DEF Registered, RegisteredIn, b

\* A loop runs to its end before the next call: the steps there are by what
\* is running.
LEMMA StepsByLoop ==
  ASSUME [Next]_vars
  PROVE  \/ UNCHANGED vars
         \/ pc = "idle" /\ pc' = "idle" /\ cur' = cur
         \/ pc = "idle" /\ \E l \in Locs : DelAll(l) \/ ReadKeyring(l)
         \/ pc = "keyring" /\ \E n \in Names, i \in StreamIDs : KeyringEntry(n, i)
         \/ pc = "keyring" /\ \E listed, opt \in BOOLEAN : KeyringFlags(listed, opt)
         \/ pc = "keyring" /\ KeyringThrows
         \/ pc = "sort" /\ KeyringSort
         \/ pc = "delAll" /\ (DelAllKey \/ DelAllNext)
         \/ pc = "cleanup" /\ (CleanupKey \/ CleanupNext)
<1>1. CASE Call
  <2>1. ASSUME NEW h, NEW u, NEW i, ReadKnownKey(h, u, i) \/ ReadNewKey(h, u, i)
        PROVE  Idle
    BY <2>1 DEF ReadKnownKey, KnownKey, ReadNewKey
  <2>2. ASSUME NEW k, NEW t, NEW n, InitObject(k, t, n) PROVE Idle
    BY <2>2 DEF InitObject
  <2>7. ASSUME NEW k, NEW n, SetName(k, n) PROVE Idle
    BY <2>7 DEF SetName
  <2>3. ASSUME NEW k, AcquireHandle(k) \/ ReleaseHandle(k) \/ LoadObject(k) \/ DelKey(k)
        PROVE  Idle
    BY <2>3 DEF AcquireHandle, ReleaseHandle, LoadObject, DelKey
  <2>4. ASSUME NEW k, NEW l, AddObject(l, k) \/ MoveKey(k, l) \/ ChangeLocation(k, l)
        PROVE  Idle
    BY <2>4 DEF AddObject, MoveKey, ChangeLocation
  <2>5. ASSUME NEW l, ChangeLocationFlags(l) \/ OptimizeKeys(l) PROVE Idle
    BY <2>5 DEF ChangeLocationFlags, OptimizeKeys
  <2>6. \/ Idle
        \/ \E l \in Locs : DelAll(l) \/ ReadKeyring(l)
        \/ \E n \in Names, i \in StreamIDs : KeyringEntry(n, i)
    BY <1>1, <2>1, <2>2, <2>3, <2>4, <2>5, <2>7 DEF Call
  <2> QED
    BY <2>6 DEF Idle, DelAll, ReadKeyring, KeyringEntry
<1>2. CASE Loop
  BY <1>2 DEF Loop, DelAllKey, DelAllNext, CleanupKey, CleanupNext,
              KeyringFlags, KeyringThrows, KeyringSort
<1> QED
  BY <1>1, <1>2 DEF Next

\* Whatever a step of Next does, no registered key gets another uoid, unless a
\* relocation or a new name is asked for, and at most one key is registered, under a uoid that
\* no registered key had.
LEMMA RegistryStep ==
  ASSUME IInv, [Next]_vars
  PROVE  NoneAdded \/ OneAdded \/ Relocation \/ Renaming
<1>0. IInv' /\ RegisteredLives'
  <2>1. IInv'
    BY NextInv
  <2>2. IInv' => RegisteredLives'
    BY RegisteredIsLive, PTL
  <2> QED
    BY <2>1, <2>2
<1>1. ASSUME UNCHANGED <<keys, uoid>> PROVE NoneAdded
  BY <1>1 DEF NoneAdded, Stays, Registered
<1>2. ASSUME NEW h \in Holders, NEW u \in Uoid, NEW i \in StreamIDs, ReadKnownKey(h, u, i)
      PROVE  NoneAdded
  BY <1>1, <1>2 DEF ReadKnownKey, KnownKey, registry
<1>3. ASSUME NEW h \in Holders, NEW u \in Uoid, NEW i \in StreamIDs, ReadNewKey(h, u, i)
      PROVE  OneAdded
  <2>1. PICK k \in Key : ~Allocated(k) /\ keys' = AddedKeys(k, u) /\ uoid' = [uoid EXCEPT ![k] = u]
    BY <1>3 DEF ReadNewKey
  <2>2. Matches(u) = {}
    BY <1>3 DEF ReadNewKey
  <2>3. ~Registered(k)
    <3>1. refCnt[k] = 0
      BY <2>1 DEF Allocated, IInv, TypeOK
    <3> QED
      BY <3>1, FreeHasNoOwner DEF IInv
  <2> QED
    BY <2>1, <2>2, <2>3, UoidBucket, AddedAlone
<1>4. ASSUME NEW k \in Key, NEW t \in Types, NEW n \in Names, InitObject(k, t, n)
      PROVE  NoneAdded
  <2>1. keys' = keys /\ uoid' = [uoid EXCEPT ![k] = [loc |-> NoLoc, type |-> t, name |-> n]]
    BY <1>4 DEF InitObject, registry
  <2>2. ~Registered(k)
    <3>1. refCnt[k] = 0
      BY <1>4 DEF InitObject, Allocated, IInv, TypeOK
    <3> QED
      BY <3>1, FreeHasNoOwner DEF IInv
  <2>3. \A x \in Key : x # k => uoid'[x] = uoid[x]
    BY <2>1 DEF IInv, TypeOK
  <2> QED
    BY <2>1, <2>2, <2>3 DEF NoneAdded, Stays, Registered
<1>5. ASSUME NEW k \in Key, AcquireHandle(k) \/ LoadObject(k) PROVE NoneAdded
  BY <1>1, <1>5 DEF AcquireHandle, LoadObject, registry
<1>6. ASSUME NEW k \in Key, ReleaseHandle(k) PROVE NoneAdded
  <2>1. Settle(uoid, id, [refCnt EXCEPT ![k] = @ - 1]) /\ keys' = keys
    BY <1>6 DEF ReleaseHandle, registry
  <2>2. \A x \in Key : Registered(x)' => Registered(x)
    BY <2>1 DEF Registered
  <2> QED
    BY <1>0, <2>1, <2>2, SettledStays
<1>7. ASSUME NEW k \in Key, DelKey(k) PROVE NoneAdded
  <2>1. /\ keys' = [keys EXCEPT ![Home(k)] = Without(keys[Home(k)], k)]
        /\ \E ids, rc : Settle(uoid, ids, rc)
    BY <1>7 DEF DelKey
  <2>2. \A x \in Key : Registered(x)' => Registered(x)
    BY <2>1, WithoutRemoves DEF Registered, RegisteredIn
  <2> QED
    BY <1>0, <2>1, <2>2, SettledStays
<1>8. ASSUME NEW k \in Key, NEW l \in Locs, AddObject(l, k) PROVE NoneAdded \/ OneAdded
  <2> DEFINE u == [uoid[k] EXCEPT !.loc = l]
  <2>1. uoid' = [uoid EXCEPT ![k] = u] /\ uoid[k].loc = NoLoc
    BY <1>8 DEF AddObject
  <2>2. ~Registered(k)
    BY <2>1, RegisteredHasLoc DEF IInv, Locs, NoLoc
  <2>3. CASE keys' = keys
    <3>1. \A x \in Key : x # k => uoid'[x] = uoid[x]
      BY <2>1 DEF IInv, TypeOK
    <3> QED
      BY <2>2, <2>3, <3>1 DEF NoneAdded, Stays, Registered
  <2>4. CASE Matches(u) = {} /\ keys' = AddedKeys(k, u)
    <3>0. uoid[k] \in Uoids
      BY DEF IInv, TypeOK, Uoids
    <3>1. u \in Uoids /\ u.loc = l /\ u.type \in Types
      BY <3>0 DEF Uoids
    <3>2. <<u.loc, u.type>> \in Buckets
      BY <3>1 DEF Buckets
    <3> HIDE DEF u
    <3> QED
      BY <2>1, <2>2, <2>4, <3>1, <3>2, AddedAlone
  <2> QED
    BY <1>8, <2>3, <2>4 DEF AddObject, registry
<1>9. ASSUME NEW l \in Locs, ChangeLocationFlags(l) PROVE NoneAdded
  <2>1. /\ keys' = [b \in Buckets |-> IF b[1] = l THEN <<>> ELSE keys[b]]
        /\ \E rc : Settle(uoid, id, rc)
    BY <1>9 DEF ChangeLocationFlags
  <2>2. \A x \in Key : Registered(x)' => Registered(x)
    BY <2>1 DEF Registered, Range
  <2> QED
    BY <1>0, <2>1, <2>2, SettledStays
<1>10. ASSUME NEW l \in Locs, NEW leq, NEW new \in Rearrangements(l, leq),
              Reordered(l, new), uoid' = uoid
       PROVE  NoneAdded
  <2>1. \A x \in Key : Registered(x)' => Registered(x)
    BY <1>10, ReorderedBuckets DEF Registered
  <2> QED
    BY <1>10, <2>1 DEF NoneAdded, Stays
<1>11. ASSUME NEW l \in Locs, OptimizeKeys(l) \/ DelAll(l) \/ ReadKeyring(l) PROVE NoneAdded
  <2>1. CASE OptimizeKeys(l)
    BY <1>10, <2>1 DEF OptimizeKeys
  <2>2. CASE DelAll(l) \/ ReadKeyring(l)
    BY <1>1, <2>2 DEF DelAll, ReadKeyring, registry, data
  <2> QED
    BY <1>11, <2>1, <2>2
<1>12. ASSUME NEW n \in Names, NEW i \in StreamIDs, KeyringEntry(n, i) PROVE OneAdded
  <2> DEFINE u == [loc |-> cur.loc, type |-> cur.type, name |-> n]
  <2>1. PICK k \in Key : ~Allocated(k) /\ keys' = AddedKeys(k, u) /\ uoid' = [uoid EXCEPT ![k] = u]
    BY <1>12 DEF KeyringEntry
  <2>2. Matches(u) = {}
    BY <1>12 DEF KeyringEntry
  <2>3. ~Registered(k)
    <3>1. refCnt[k] = 0
      BY <2>1 DEF Allocated, IInv, TypeOK
    <3> QED
      BY <3>1, FreeHasNoOwner DEF IInv
  <2>4. u \in Uoids /\ <<u.loc, u.type>> \in Buckets
    BY DEF IInv, TypeOK, Uoids, Buckets
  <2> QED
    BY <2>1, <2>2, <2>3, <2>4, AddedAlone
<1>13. CASE Loop
  <2>1. CASE DelAllKey \/ CleanupKey
    <3>1. cur.idx <= Len(Bucket) /\ (EraseHere \/ Advance)
      BY <2>1 DEF DelAllKey, CleanupKey
    <3>2. CASE Advance
      BY <1>1, <3>2 DEF Advance, registry, data
    <3>3. CASE EraseHere
      <4>1. \A x \in Key : Registered(x)' => Registered(x)
        BY <3>1, <3>3, ErasedKeys
      <4>2. \E rc : Settle(uoid, id, rc)
        BY <3>3 DEF EraseHere
      <4> QED
        BY <1>0, <4>1, <4>2, SettledStays
    <3> QED
      BY <3>1, <3>2, <3>3
  <2>2. CASE DelAllNext \/ CleanupNext \/ KeyringThrows
    BY <1>1, <2>2 DEF DelAllNext, CleanupNext, KeyringThrows, registry, data
  <2>3. ASSUME NEW listed, NEW opt, KeyringFlags(listed, opt) PROVE NoneAdded
    BY <1>1, <2>3 DEF KeyringFlags, data
  <2>4. CASE KeyringSort
    <3>1. uoid' = uoid /\ cur.loc \in Locs
      BY <2>4 DEF KeyringSort, IInv, Anchored
    <3>2. CASE keys' = keys
      BY <1>1, <3>1, <3>2
    <3>3. CASE SortKeys(cur.loc)
      BY <1>10, <3>1, <3>3 DEF SortKeys
    <3> QED
      BY <2>4, <3>2, <3>3 DEF KeyringSort, registry
  <2> QED
    BY <1>13, <2>1, <2>2, <2>3, <2>4 DEF Loop
<1>14. CASE Call
  <2>1. ASSUME NEW k \in Key, NEW l \in Locs, MoveKey(k, l) PROVE Relocation
    BY <2>1 DEF Relocation
  <2>2. ASSUME NEW l \in Locs, NEW m \in Locs, ChangeLocation(l, m) PROVE Relocation
    BY <2>2 DEF Relocation
  <2>3. ASSUME NEW k \in Key, NEW n \in Names, SetName(k, n) PROVE Renaming
    BY <2>3 DEF Renaming
  <2> QED
    BY <1>14, <2>3, <1>2, <1>3, <1>4, <1>5, <1>6, <1>7, <1>8, <1>9, <1>11, <1>12, <2>1, <2>2 DEF Call
<1>15. CASE UNCHANGED vars
  BY <1>1, <1>15 DEF vars
<1> QED
  BY <1>13, <1>14, <1>15 DEF Next

\* A registered key is found under its uoid: Matches is not empty.
LEMMA RegisteredIsFound ==
  ASSUME IInv, NEW x \in Key, Registered(x)
  PROVE  Matches(uoid[x]) # {}
<1>1. x \in Range(keys[Home(x)])
  BY RegisteredAtHome DEF IInv
<1> QED
  BY <1>1 DEF Matches, Home, Range

\* A key that comes to the registry under a new uoid is no second one.
LEMMA NoSecondKey ==
  ASSUME IInv, NoneAdded \/ OneAdded, ~SameUoid
  PROVE  ~SameUoid'
<1> SUFFICES ASSUME SameUoid' PROVE FALSE
  OBVIOUS
<1>1. PICK k \in Key, x \in Key : /\ k # x /\ uoid'[k] = uoid'[x]
                                  /\ Registered(k)' /\ Registered(x)'
  BY DEF SameUoid
<1>2. CASE NoneAdded
  BY <1>1, <1>2 DEF NoneAdded, Stays, SameUoid
<1>3. CASE OneAdded
  <2>1. PICK n \in Key, u \in Uoids :
          /\ Matches(u) = {} /\ uoid'[n] = u
          /\ \A y \in Key : Registered(y)' => Stays(y) \/ y = n
    BY <1>3 DEF OneAdded
  <2>2. \A y \in Key : Stays(y) => uoid'[y] # u
    BY <2>1, RegisteredIsFound DEF Stays
  <2>3. Stays(k) /\ Stays(x)
    BY <1>1, <2>1, <2>2
  <2> QED
    BY <1>1, <2>3 DEF Stays, SameUoid
<1> QED
  BY <1>2, <1>3

\* A step that is no relocation and no renaming gives no second registered key
\* the uoid of one.
LEMMA NoDuplicateStep ==
  ASSUME IInv, [Next]_vars, ~SameUoid, SameUoid'
  PROVE  Relocation \/ Renaming
BY NoSecondKey, RegistryStep

\* Adding looks the uoid up first: a step after which two registered keys have
\* the same uoid, and none had before, is a MoveKey, a ChangeLocation or a setName.
THEOREM NoDuplicates == Spec => NoDuplicateAdded
<1>1. IInv /\ [Next]_vars => [~SameUoid /\ SameUoid' => Relocation \/ Renaming]_vars
  BY NoDuplicateStep
<1> QED
  BY <1>1, Invariance, PTL DEF Spec, NoDuplicateAdded

-----------------------------------------------------------------------------
(* delAll: the loaded keys of the location are ahead of the iterator.      *)

\* k is at the iterator or behind it, or in a bucket still to come.
Ahead(k) ==
  \/ uoid[k].type > cur.type
  \/ uoid[k].type = cur.type /\ \E i \in DOMAIN Bucket : i >= cur.idx /\ Bucket[i] = k

Unloaded ==
  pc = "delAll" =>
    /\ cur.loc \in Locs
    /\ \A k \in loaded : Registered(k) /\ uoid[k].loc = cur.loc => Ahead(k)

\* A key of the location that is not ahead is in a bucket that is done.
LEMMA UnloadedStep == IInv /\ Unloaded /\ [Next]_vars => Unloaded'
<1> SUFFICES ASSUME IInv, Unloaded, [Next]_vars, pc' = "delAll"
             PROVE  Unloaded'
  BY DEF Unloaded
<1>0. /\ cur.type \in Nat /\ cur.idx \in Nat /\ cur.loc \in Locs \cup {NoLoc}
      /\ cur.idx >= 1 /\ cur.type \in Types /\ NTypes \in Nat
      /\ \A k \in Key : uoid[k].type \in Types /\ uoid[k].type \in Nat
  BY LocAssumption DEF IInv, TypeOK, Types
<1>1. CASE UNCHANGED <<keys, uoid, loaded, pc, cur>>
  BY <1>1 DEF Unloaded, Ahead, Registered, Bucket
<1>2. ASSUME NEW l \in Locs, DelAll(l) PROVE Unloaded'
  <2>1. /\ UNCHANGED <<keys, uoid, loaded>>
        /\ cur'.loc = l /\ cur'.type = 1 /\ cur'.idx = 1
    BY <1>2 DEF DelAll, registry, data
  <2>2. ASSUME NEW k \in loaded', Registered(k)', uoid'[k].loc = l PROVE Ahead(k)'
    <3>1. k \in Key /\ k \in Range(keys[Home(k)]) /\ keys[Home(k)] \in Seq(Key)
      <4>1. k \in Key /\ Registered(k)
        BY <2>1, <2>2 DEF IInv, TypeOK, Registered
      <4> QED
        BY <4>1, RegisteredAtHome, HomeIsBucket DEF IInv, TypeOK
    <3>2. CASE uoid[k].type > 1
      BY <2>1, <3>2 DEF Ahead
    <3>3. CASE uoid[k].type = 1
      <4>1. Home(k) = <<l, 1>> /\ Bucket' = keys[Home(k)]
        BY <2>1, <2>2, <3>3 DEF Home, Bucket
      <4>2. PICK i \in DOMAIN keys[Home(k)] : keys[Home(k)][i] = k
        BY <3>1 DEF Range
      <4>3. i >= 1
        BY <3>1, <4>2
      <4> QED
        BY <2>1, <3>3, <4>1, <4>2, <4>3 DEF Ahead
    <3> QED
      BY <1>0, <3>1, <3>2, <3>3 DEF Types
  <2> QED
    BY <2>1, <2>2 DEF Unloaded
<1>3. CASE pc = "delAll" /\ Advance /\ cur.idx <= Len(Bucket) /\ Here \notin loaded
  <2>1. /\ UNCHANGED <<keys, uoid, loaded>>
        /\ cur'.loc = cur.loc /\ cur'.type = cur.type /\ cur'.idx = cur.idx + 1
        /\ Bucket' = Bucket
    BY <1>3 DEF Advance, registry, data, Bucket, IInv, TypeOK
  <2>2. ASSUME NEW k \in loaded, Ahead(k) PROVE Ahead(k)'
    <3>1. CASE uoid[k].type > cur.type
      BY <2>1, <3>1 DEF Ahead
    <3>2. ASSUME NEW i \in DOMAIN Bucket, i >= cur.idx, Bucket[i] = k,
                 uoid[k].type = cur.type
          PROVE  Ahead(k)'
      <4>1. i # cur.idx
        BY <1>3, <2>2, <3>2 DEF Here
      <4>2. i \in Nat
        BY <1>3, <3>2, AtIterator
      <4>3. i >= cur'.idx
        BY <1>0, <2>1, <3>2, <4>1, <4>2
      <4> QED
        BY <2>1, <3>2, <4>3 DEF Ahead
    <3> QED
      BY <2>2, <3>1, <3>2 DEF Ahead
  <2> QED
    BY <1>3, <2>1, <2>2 DEF Unloaded, Registered
<1>4. CASE pc = "delAll" /\ EraseHere /\ cur.idx <= Len(Bucket)
  <2>1. /\ loaded' = loaded \ {Here} /\ cur' = cur
        /\ \E rc : Settle(uoid, id, rc)
    BY <1>4 DEF EraseHere, DeleteObj, AfterErase
  <2>2. /\ Bucket' = RemoveAt(Bucket, cur.idx)
        /\ \A x \in Key : Registered(x)' <=> (Registered(x) /\ x # Here)
    BY <1>4, <2>1, ErasedKeys DEF Bucket
  <2>3. /\ Bucket \in Seq(Key) /\ cur.idx \in 1..Len(Bucket) /\ Len(Bucket) \in Nat
        /\ Len(Bucket') = Len(Bucket) - 1 /\ Bucket' \in Seq(Key)
        /\ \A j \in 1..Len(Bucket) - 1 :
             Bucket'[j] = IF j < cur.idx THEN Bucket[j] ELSE Bucket[j + 1]
    <3>1. Bucket \in Seq(Key) /\ cur.idx \in 1..Len(Bucket) /\ Len(Bucket) \in Nat
      BY <1>4, AtIterator
    <3>2. /\ RemoveAt(Bucket, cur.idx) \in Seq(Key)
          /\ Len(RemoveAt(Bucket, cur.idx)) = Len(Bucket) - 1
          /\ \A j \in 1..Len(Bucket) - 1 :
               RemoveAt(Bucket, cur.idx)[j] = IF j < cur.idx THEN Bucket[j] ELSE Bucket[j + 1]
      BY <3>1, RemoveAtSeq
    <3> QED
      BY <2>2, <3>1, <3>2
  <2>4. NoneAdded
    <3>1. IInv' /\ (IInv' => RegisteredLives')
      BY NextInv, RegisteredIsLive, PTL
    <3> QED
      BY <2>1, <2>2, <3>1, SettledStays
  <2>5. ASSUME NEW k \in loaded', Registered(k)', uoid'[k].loc = cur.loc PROVE Ahead(k)'
    <3>1. k \in Key /\ k # Here /\ k \in loaded /\ Registered(k) /\ uoid'[k] = uoid[k]
      BY <2>1, <2>2, <2>4, <2>5 DEF IInv, TypeOK, NoneAdded, Stays
    <3>2. Ahead(k)
      BY <1>4, <2>5, <3>1 DEF Unloaded
    <3>3. CASE uoid[k].type > cur.type
      BY <2>1, <3>1, <3>3 DEF Ahead
    <3>4. ASSUME NEW i \in DOMAIN Bucket, i >= cur.idx, Bucket[i] = k,
                 uoid[k].type = cur.type
          PROVE  Ahead(k)'
      <4>1. i \in 1..Len(Bucket) /\ i # cur.idx
        BY <2>3, <3>1, <3>4 DEF Here
      <4>2. i - 1 \in 1..Len(Bucket) - 1 /\ i - 1 >= cur.idx /\ ~(i - 1 < cur.idx) /\ (i - 1) + 1 = i
        BY <1>0, <2>3, <3>4, <4>1
      <4>3. Bucket'[i - 1] = k
        BY <2>3, <3>4, <4>2
      <4>4. i - 1 \in DOMAIN Bucket'
        BY <2>3, <4>2
      <4> QED
        BY <2>1, <3>1, <3>4, <4>2, <4>3, <4>4 DEF Ahead
    <3> QED
      BY <3>2, <3>3, <3>4 DEF Ahead
  <2> QED
    BY <1>4, <2>1, <2>5 DEF Unloaded
<1>5. CASE pc = "delAll" /\ DelAllNext
  <2>1. /\ UNCHANGED <<keys, uoid, loaded>> /\ cur.idx > Len(Bucket)
        /\ cur' = [loc |-> cur.loc, type |-> cur.type + 1, idx |-> 1]
    BY <1>5 DEF DelAllNext, registry, data
  <2>2. ASSUME NEW k \in loaded, Registered(k), uoid[k].loc = cur.loc, Ahead(k)
        PROVE  Ahead(k)'
    <3>1. k \in Key /\ k \in Range(keys[Home(k)]) /\ keys[Home(k)] \in Seq(Key)
          /\ Bucket \in Seq(Key)
      <4>1. k \in Key /\ <<cur.loc, cur.type>> \in Buckets
        BY DEF IInv, TypeOK, Buckets
      <4> QED
        BY <2>2, <4>1, RegisteredAtHome, HomeIsBucket DEF IInv, TypeOK, Bucket
    <3>2. uoid[k].type > cur.type
      <4>1. ASSUME NEW i \in DOMAIN Bucket, i >= cur.idx PROVE FALSE
        <5>1. i \in Nat /\ i <= Len(Bucket) /\ Len(Bucket) \in Nat
          BY <3>1
        <5> QED
          BY <1>0, <2>1, <4>1, <5>1
      <4> QED
        BY <2>2, <4>1 DEF Ahead
    <3>3. CASE uoid[k].type > cur.type + 1
      BY <2>1, <3>3 DEF Ahead
    <3>4. CASE uoid[k].type = cur.type + 1
      <4>1. Home(k) = <<cur.loc, cur.type + 1>> /\ Bucket' = keys[Home(k)]
        BY <2>1, <2>2, <3>4 DEF Home, Bucket
      <4>2. PICK i \in DOMAIN keys[Home(k)] : keys[Home(k)][i] = k
        BY <3>1 DEF Range
      <4>3. i >= 1
        BY <3>1, <4>2
      <4> QED
        BY <2>1, <3>4, <4>1, <4>2, <4>3 DEF Ahead
    <3> QED
      BY <1>0, <3>1, <3>2, <3>3, <3>4
  <2> QED
    BY <1>5, <2>1, <2>2 DEF Unloaded, Registered
<1>6. CASE pc = "delAll" /\ DelAllKey
  <2>1. cur.idx <= Len(Bucket) /\ (EraseHere \/ (Advance /\ Here \notin loaded))
    BY <1>6 DEF DelAllKey
  <2> QED
    BY <1>3, <1>4, <1>6, <2>1
<1>7. \A l : ~ReadKeyring(l)
  BY DEF ReadKeyring
<1>8. /\ \A n, i : ~KeyringEntry(n, i)
      /\ \A listed, opt : ~KeyringFlags(listed, opt)
      /\ ~KeyringThrows /\ ~KeyringSort
  BY DEF KeyringEntry, KeyringFlags, KeyringThrows, KeyringSort
<1>9. pc = "cleanup" => ~CleanupKey /\ ~CleanupNext
  BY DEF CleanupKey, CleanupNext, EraseHere, Advance
<1> QED
  BY <1>1, <1>2, <1>5, <1>6, <1>7, <1>8, <1>9, StepsByLoop DEF vars

\* When delAll hands over to cleanupKeys, what it found loaded where it worked
\* is not loaded any more.
LEMMA HandOverStep ==
  ASSUME IInv, Unloaded, [Next]_vars, pc = "delAll", pc' = "cleanup",
         NEW k \in loaded, Registered(k)
  PROVE  uoid[k].loc # cur.loc
<1>1. DelAllNext
  <2>1. ~DelAllKey
    BY DEF DelAllKey, EraseHere, Advance
  <2> QED
    BY <2>1, StepsByLoop DEF vars
<1>2. cur.type = NTypes /\ cur.idx > Len(Bucket)
  BY <1>1 DEF DelAllNext
<1>3. k \in Key /\ uoid[k].type \in 1..NTypes /\ NTypes \in Nat
  BY LocAssumption DEF IInv, TypeOK, Types
<1>4. Bucket \in Seq(Key) /\ cur.idx \in Nat
  BY DEF IInv, TypeOK, Bucket, Buckets
<1>5. ~Ahead(k)
  BY <1>2, <1>3, <1>4 DEF Ahead
<1> QED
  BY <1>5 DEF Unloaded

\* delAll leaves no loaded key of the location, although erase moves the keys
\* behind the iterator: the clean-up that follows starts from there.
THEOREM DelAllCorrect == Spec => DelAllUnloads
<1>1. Init => Unloaded
  BY DEF Init, Unloaded
<1>2. IInv /\ Unloaded /\ [Next]_vars => Unloaded'
  BY UnloadedStep
<1>3. IInv /\ Unloaded /\ [Next]_vars
        => [(pc = "delAll" /\ pc' = "cleanup") =>
              \A k \in loaded : Registered(k) => uoid[k].loc # cur.loc]_vars
  BY HandOverStep
<1> QED
  BY <1>1, <1>2, <1>3, Invariance, PTL DEF Spec, DelAllUnloads

-----------------------------------------------------------------------------
(* kNotOptimized: which steps leave an unflagged bucket out of order.      *)

\* Numbers that ascend from each to the next are in order.
LEMMA Ascending ==
  ASSUME NEW n \in Nat, NEW f \in [1..n -> Nat],
         \A i \in 1..n - 1 : f[i] < f[i + 1]
  PROVE  \A i, j \in 1..n : i < j => f[i] <= f[j]
<1> SUFFICES ASSUME NEW i \in 1..n PROVE \A j \in 1..n : i < j => f[i] <= f[j]
  OBVIOUS
<1> DEFINE T == {d \in Nat : i + d <= n => f[i] <= f[i + d]}
<1>1. 0 \in T
  OBVIOUS
<1>2. ASSUME NEW d \in Nat, d \in T PROVE d + 1 \in T
  <2> SUFFICES ASSUME i + (d + 1) <= n PROVE f[i] <= f[i + (d + 1)]
    OBVIOUS
  <2>1. i + d \in 1..n - 1 /\ (i + d) + 1 = i + (d + 1) /\ i + (d + 1) \in 1..n
    OBVIOUS
  <2>2. f[i] <= f[i + d] /\ f[i + d] < f[i + (d + 1)]
    BY <1>2, <2>1
  <2>3. f[i] \in Nat /\ f[i + d] \in Nat /\ f[i + (d + 1)] \in Nat
    BY <2>1
  <2> QED
    BY <2>2, <2>3
<1>3. \A d \in Nat : d \in T
  <2> HIDE DEF T
  <2> QED
    BY <1>1, <1>2, AllNumbers
<1> SUFFICES ASSUME NEW j \in 1..n, i < j PROVE f[i] <= f[j]
  OBVIOUS
<1>4. PICK d \in Nat : j = i + d
  <2>1. j - i \in Nat /\ j = i + (j - i)
    OBVIOUS
  <2> QED
    BY <2>1
<1>5. d \in T
  BY <1>3
<1> QED
  BY <1>4, <1>5

\* Nothing but setName changes the name of a key that is registered.
LEMMA NameStays ==
  ASSUME IInv, [Next]_vars, ~Renaming, NEW x \in Key, Registered(x), Registered(x)'
  PROVE  uoid'[x].name = uoid[x].name
<1>1. CASE NoneAdded \/ OneAdded
  BY <1>1 DEF NoneAdded, OneAdded, Stays
<1>0. \A k \in Key : uoid[k] \in Uoids
  BY DEF IInv, TypeOK, Uoids
<1>2. CASE Relocation
  <2>1. ASSUME NEW k \in Key, NEW l \in Locs, MoveKey(k, l)
        PROVE  uoid'[x].name = uoid[x].name
    <3>1. uoid' = [uoid EXCEPT ![k] = [@ EXCEPT !.loc = l]]
      BY <2>1 DEF MoveKey
    <3> QED
      BY <1>0, <3>1 DEF IInv, TypeOK, Uoids
  <2>2. ASSUME NEW l \in Locs, NEW m \in Locs, ChangeLocation(l, m)
        PROVE  uoid'[x].name = uoid[x].name
    <3>1. uoid'[x] \in {uoid[x], [uoid[x] EXCEPT !.loc = m]}
      BY <2>2 DEF ChangeLocation
    <3> QED
      BY <1>0, <3>1 DEF Uoids
  <2> QED
    BY <1>2, <2>1, <2>2 DEF Relocation
<1> QED
  BY <1>1, <1>2, RegistryStep

\* What a step does to a bucket that it does not flag or sort.
Kept(b) ==
  \/ keys'[b] = keys[b]
  \/ keys'[b] = <<>>
  \/ \E i \in 1..Len(keys[b]) : keys'[b] = RemoveAt(keys[b], i)

\* Who is in a bucket is registered.
Membership ==
  \A b \in Buckets : \A i \in DOMAIN keys[b] : keys[b][i] \in Key /\ Registered(keys[b][i])

LEMMA MembersRegistered == IInv => Membership
<1> SUFFICES ASSUME IInv, NEW b \in Buckets, NEW i \in DOMAIN keys[b]
             PROVE  keys[b][i] \in Key /\ Registered(keys[b][i])
  BY DEF Membership
<1>1. keys[b] \in Seq(Key)
  BY DEF IInv, TypeOK
<1> QED
  BY <1>1 DEF Registered, Range

\* The same after a step.
LEMMA MembersNext == ASSUME IInv, [Next]_vars PROVE IInv' /\ Membership /\ Membership'
<1>1. IInv'
  BY NextInv
<1>2. IInv' => Membership'
  BY MembersRegistered, PTL
<1> QED
  BY <1>1, <1>2, MembersRegistered

\* An erasure does not disturb the order of a bucket.
LEMMA KeptOrder ==
  ASSUME IInv, [Next]_vars, ~Renaming, NEW b \in Buckets, InNameOrder(b), Kept(b)
  PROVE  InNameOrder(b)'
<1>1. keys[b] \in Seq(Key) /\ keys'[b] \in Seq(Key)
  <2>1. IInv'
    BY NextInv
  <2> QED
    BY <2>1 DEF IInv, TypeOK
<1> DEFINE s == keys[b]
           r == keys'[b]
<1>2. ASSUME NEW i \in DOMAIN s, NEW m \in DOMAIN r, s[i] = r[m]
      PROVE  uoid'[r[m]].name = uoid[s[i]].name
  <2>1. PICK x : x = s[i]
    OBVIOUS
  <2>2. x \in Key /\ Registered(x) /\ Registered(x)'
    BY <1>2, <2>1, MembersNext DEF Membership
  <2>3. uoid'[x].name = uoid[x].name
    BY <2>2, NameStays
  <2> QED
    BY <1>2, <2>1, <2>3
<1>3. CASE keys'[b] = keys[b]
  BY <1>1, <1>2, <1>3 DEF InNameOrder
<1>4. CASE keys'[b] = <<>>
  BY <1>4 DEF InNameOrder
<1>5. ASSUME NEW i \in 1..Len(keys[b]), keys'[b] = RemoveAt(keys[b], i)
      PROVE  InNameOrder(b)'
  <2>1. /\ Len(r) = Len(s) - 1 /\ Len(s) \in Nat
        /\ \A j \in 1..Len(s) - 1 : r[j] = IF j < i THEN s[j] ELSE s[j + 1]
        /\ DOMAIN r = 1..Len(s) - 1 /\ DOMAIN s = 1..Len(s)
    <3>1. /\ Len(RemoveAt(s, i)) = Len(s) - 1
          /\ \A j \in 1..Len(s) - 1 : RemoveAt(s, i)[j] = IF j < i THEN s[j] ELSE s[j + 1]
      BY <1>1, RemoveAtSeq
    <3> QED
      BY <1>1, <1>5, <3>1
  <2> DEFINE at(j) == IF j < i THEN j ELSE j + 1
  <2>2. ASSUME NEW j \in 1..Len(s) - 1
        PROVE  /\ at(j) \in 1..Len(s) /\ r[j] = s[at(j)]
    BY <2>1
  <2>3. ASSUME NEW j \in 1..Len(s) - 1, NEW m \in 1..Len(s) - 1, j < m
        PROVE  at(j) < at(m)
    BY <2>1, <2>3
  <2> HIDE DEF at, s, r
  <2>4. ASSUME NEW j \in 1..Len(s) - 1, NEW m \in 1..Len(s) - 1, j < m
        PROVE  uoid'[r[j]].name <= uoid'[r[m]].name
    <3>1. uoid[s[at(j)]].name <= uoid[s[at(m)]].name
      BY <2>1, <2>2, <2>3, <2>4 DEF InNameOrder, s
    <3>2. j \in DOMAIN r /\ m \in DOMAIN r /\ at(j) \in DOMAIN s /\ at(m) \in DOMAIN s
      BY <2>1, <2>2
    <3> QED
      BY <1>2, <2>2, <3>1, <3>2
  <2> QED
    BY <2>1, <2>4 DEF InNameOrder, r
<1> QED
  BY <1>3, <1>4, <1>5 DEF Kept

\* An empty bucket is in order.
LEMMA EmptyIsOrdered == ASSUME NEW b, keys'[b] = <<>> PROVE InNameOrder(b)'
BY DEF InNameOrder

\* The loop of del and MoveKey erases one element or none.
LEMMA WithoutKept ==
  ASSUME NEW s \in Seq(Key), NEW k
  PROVE  Without(s, k) = s \/ \E i \in 1..Len(s) : Without(s, k) = RemoveAt(s, i)
<1>1. CASE k \notin Range(s)
  BY <1>1 DEF Without
<1>2. CASE k \in Range(s)
  <2>1. Position(s, k) \in 1..Len(s)
    BY <1>2 DEF Position, Range
  <2> QED
    BY <1>2, <2>1 DEF Without
<1> QED
  BY <1>1, <1>2

\* After optimizeKeys the buckets of the page are in the order of names.
LEMMA OptimizedOrder ==
  ASSUME IInv, NEW l \in Locs, OptimizeKeys(l), NEW b \in Buckets, b[1] = l
  PROVE  InNameOrder(b)'
<1>1. PICK new \in Rearrangements(l, LeqName) : Reordered(l, new)
  BY DEF OptimizeKeys
<1>2. b[2] \in Types /\ b = <<l, b[2]>>
  BY DEF Buckets
<1>3. keys'[b] = new[b[2]] /\ uoid' = uoid
  BY <1>1 DEF Reordered, OptimizeKeys
<1>4. new[b[2]] \in Sortings(keys[b], LeqName)
  BY <1>2 DEF Rearrangements
<1> DEFINE s == keys[b]
<1>5. PICK q \in Bijection(DOMAIN s, DOMAIN s) :
        /\ keys'[b] = [i \in DOMAIN s |-> s[q[i]]]
        /\ \A i, j \in DOMAIN s : i < j => <<s[q[i]], s[q[j]]>> \in LeqName
  BY <1>3, <1>4 DEF Sortings
<1>6. DOMAIN keys'[b] = DOMAIN s
  BY <1>5
<1>7. ASSUME NEW i \in DOMAIN s, NEW j \in DOMAIN s, i < j
      PROVE  uoid[keys'[b][i]].name <= uoid[keys'[b][j]].name
  BY <1>5, <1>7 DEF LeqName
<1> HIDE DEF s
<1> QED
  BY <1>3, <1>6, <1>7 DEF InNameOrder

\* sortKeys flags the buckets of the page that are not in the order of names.
LEMMA CheckedOrder ==
  ASSUME IInv, KeyringSort, ~PreserveIDs, NEW b \in Buckets, b[1] = cur.loc, b \notin notOpt'
  PROVE  InNameOrder(b)'
<1>1. PICK new \in Rearrangements(cur.loc, LeqID) :
        Reordered(cur.loc, new) /\ notOpt' = notOpt \cup Misordered(cur.loc, new)
  BY DEF KeyringSort, SortKeys
<1>2. b[2] \in Types /\ b = <<cur.loc, b[2]>>
  BY DEF Buckets
<1> DEFINE s == new[b[2]]
           f == [i \in 1..Len(s) |-> uoid[s[i]].name]
<1>3. keys'[b] = s /\ uoid' = uoid
  BY <1>1 DEF Reordered, KeyringSort
<1>4. s \in Seq(Key) /\ Len(s) \in Nat
  <2>1. IInv'
    BY NextInv DEF Next, Loop
  <2> QED
    BY <1>3, <2>1 DEF IInv, TypeOK
<1>5. \A i \in 1..Len(s) - 1 : uoid[s[i]].name < uoid[s[i + 1]].name
  BY <1>1, <1>2 DEF Misordered
<1>6. f \in [1..Len(s) -> Nat]
  <2>1. \A i \in 1..Len(s) : s[i] \in Key
    BY <1>4
  <2>2. ASSUME NEW k \in Key PROVE uoid[k].name \in Nat
    <3>1. uoid[k] \in Uoids
      BY DEF IInv, TypeOK, Uoids
    <3>2. uoid[k].name \in Names \cup {0}
      BY <3>1 DEF Uoids
    <3>3. Names \subseteq Nat
      BY IDAssumption, Zenon
    <3>4. 0 \in Nat
      OBVIOUS
    <3>5. (Names \cup {0}) \subseteq Nat
      BY <3>3, <3>4, Zenon
    <3> QED
      BY <3>2, <3>5, Zenon
  <2> QED
    BY <2>1, <2>2
<1>7. \A i \in 1..Len(s) - 1 : f[i] < f[i + 1]
  BY <1>4, <1>5
<1>8. \A i, j \in 1..Len(s) : i < j => f[i] <= f[j]
  <2> HIDE DEF f, s
  <2> QED
    BY <1>4, <1>6, <1>7, Ascending
<1>9. \A i, j \in 1..Len(s) : i < j => uoid[s[i]].name <= uoid[s[j]].name
  BY <1>8
<1>10. DOMAIN s = 1..Len(s)
  BY <1>4
<1> HIDE DEF s, f
<1> QED
  BY <1>3, <1>9, <1>10 DEF InNameOrder

\* A bucket that is not flagged after a step was not flagged before and lost
\* an element at most, or has been sorted or checked, or is the one whose flags
\* are being read.
Accounted(b) ==
  \/ b \in notOpt'
  \/ Kept(b) /\ b \notin notOpt
  \/ InNameOrder(b)'
  \/ pc = "keyring" /\ b = <<cur.loc, cur.type>>

LEMMA FlagStep ==
  ASSUME IInv, [Next]_vars, ~PreserveIDs, NEW b \in Buckets
  PROVE  Accounted(b)
<1>0. keys \in [Buckets -> Seq(Key)] /\ uoid \in [Key -> Uoids]
  BY DEF IInv, TypeOK, Uoids
<1>1. ASSUME keys' = keys, notOpt' = notOpt PROVE Accounted(b)
  BY <1>1 DEF Accounted, Kept
<1>2. ASSUME NEW k, NEW u, keys' = AddedKeys(k, u), <<u.loc, u.type>> \in Buckets,
             notOpt' = notOpt \cup {<<u.loc, u.type>>}
      PROVE  Accounted(b)
  BY <1>0, <1>2 DEF Accounted, Kept, AddedKeys
<1>3. ASSUME NEW h \in Holders, NEW u \in Uoid, NEW i \in StreamIDs,
             ReadKnownKey(h, u, i) \/ ReadNewKey(h, u, i)
      PROVE  Accounted(b)
  BY <1>1, <1>2, <1>3, UoidBucket DEF ReadKnownKey, KnownKey, ReadNewKey, registry
<1>4. ASSUME NEW k \in Key, NEW t, NEW n,
             \/ InitObject(k, t, n) \/ SetName(k, n)
             \/ AcquireHandle(k) \/ ReleaseHandle(k) \/ LoadObject(k)
      PROVE  Accounted(b)
  BY <1>1, <1>4 DEF InitObject, SetName, AcquireHandle, ReleaseHandle, LoadObject, registry
<1>5. ASSUME NEW k \in Key, NEW rest, rest = [keys EXCEPT ![Home(k)] = Without(keys[Home(k)], k)]
      PROVE  \/ rest[b] = keys[b]
             \/ \E i \in 1..Len(keys[b]) : rest[b] = RemoveAt(keys[b], i)
  <2>1. CASE b = Home(k)
    BY <1>0, <1>5, <2>1, WithoutKept
  <2>2. CASE b # Home(k)
    BY <1>0, <1>5, <2>2
  <2> QED
    BY <2>1, <2>2
<1>6. ASSUME NEW k \in Key, DelKey(k) PROVE Accounted(b)
  <2> DEFINE h == Home(k)
  <2>1. /\ keys' = [keys EXCEPT ![h] = Without(keys[h], k)]
        /\ notOpt' = IF Without(keys[h], k) = <<>> THEN notOpt \ {h} ELSE notOpt
    BY <1>6 DEF DelKey
  <2>2. Kept(b)
    BY <1>5, <2>1 DEF Kept
  <2>3. CASE b # h \/ Without(keys[h], k) # <<>>
    BY <2>1, <2>2, <2>3 DEF Accounted
  <2>4. CASE b = h /\ Without(keys[h], k) = <<>>
    <3>1. keys'[b] = <<>>
      BY <1>0, <2>1, <2>4
    <3> QED
      BY <3>1, EmptyIsOrdered DEF Accounted
  <2> QED
    BY <2>3, <2>4
<1>7. ASSUME NEW k \in Key, NEW l \in Locs, MoveKey(k, l) PROVE Accounted(b)
  <2> DEFINE h == Home(k)
             left == [keys EXCEPT ![h] = Without(keys[h], k)]
             c == <<l, uoid[k].type>>
  <2>1. /\ keys' = [left EXCEPT ![c] = Append(@, k)]
        /\ notOpt' = (IF Without(keys[h], k) = <<>> THEN notOpt \ {h} ELSE notOpt) \cup {c}
    BY <1>7 DEF MoveKey
  <2>2. CASE b = c
    BY <2>1, <2>2 DEF Accounted
  <2>3. ASSUME b # c PROVE keys'[b] = left[b]
    BY <1>0, <2>1, <2>3
  <2>4. ASSUME b # c PROVE Kept(b)
    <3> HIDE DEF c
    <3> QED
      BY <1>5, <2>3, <2>4 DEF Kept
  <2>5. CASE b # c /\ (b # h \/ Without(keys[h], k) # <<>>)
    BY <2>1, <2>4, <2>5 DEF Accounted
  <2>6. CASE b # c /\ b = h /\ Without(keys[h], k) = <<>>
    <3>1. keys'[b] = <<>>
      BY <1>0, <2>3, <2>6
    <3> QED
      BY <3>1, EmptyIsOrdered DEF Accounted
  <2> QED
    BY <2>2, <2>5, <2>6
<1>8. ASSUME NEW k \in Key, NEW l \in Locs, AddObject(l, k) PROVE Accounted(b)
  <2> DEFINE u == [uoid[k] EXCEPT !.loc = l]
  <2>1. \/ UNCHANGED registry
        \/ keys' = AddedKeys(k, u) /\ notOpt' = notOpt \cup {<<l, u.type>>}
    BY <1>8 DEF AddObject
  <2>2. u.loc = l /\ <<u.loc, u.type>> \in Buckets
    BY <1>0 DEF Uoids, Buckets
  <2> QED
    BY <1>1, <1>2, <2>1, <2>2 DEF registry
<1>9. ASSUME NEW l \in Locs, NEW m \in Locs, ChangeLocation(l, m) PROVE Accounted(b)
  <2>1. /\ keys'[b] = CASE b[1] = l -> <<>>
                        [] b[1] = m -> keys[b] \o keys[<<l, b[2]>>]
                        [] OTHER -> keys[b]
        /\ notOpt' = {c \in notOpt : c[1] # l} \cup {<<m, t>> : t \in Types}
        /\ l # m
    BY <1>9 DEF ChangeLocation
  <2>2. b = <<b[1], b[2]>> /\ b[2] \in Types
    BY DEF Buckets
  <2>3. CASE b[1] = l
    BY <2>1, <2>3, EmptyIsOrdered DEF Accounted
  <2>4. CASE b[1] = m
    BY <2>1, <2>2, <2>4 DEF Accounted
  <2>5. CASE b[1] # l /\ b[1] # m
    BY <2>1, <2>5 DEF Accounted, Kept
  <2> QED
    BY <2>3, <2>4, <2>5
<1>10. ASSUME NEW l \in Locs, ChangeLocationFlags(l) PROVE Accounted(b)
  <2>1. /\ keys'[b] = IF b[1] = l THEN <<>> ELSE keys[b]
        /\ notOpt' = {c \in notOpt : c[1] # l}
    BY <1>10 DEF ChangeLocationFlags
  <2> QED
    BY <2>1, EmptyIsOrdered DEF Accounted, Kept
<1>11. ASSUME NEW l \in Locs, OptimizeKeys(l) PROVE Accounted(b)
  <2>1. CASE b[1] = l
    BY <1>11, <2>1, OptimizedOrder DEF Accounted
  <2>2. CASE b[1] # l
    <3>1. keys'[b] = keys[b] /\ (b \in notOpt => b \in notOpt')
      BY <1>11, <2>2 DEF OptimizeKeys, Reordered
    <3> QED
      BY <3>1 DEF Accounted, Kept
  <2> QED
    BY <2>1, <2>2
<1>12. ASSUME NEW l \in Locs, DelAll(l) \/ ReadKeyring(l) PROVE Accounted(b)
  BY <1>1, <1>12 DEF DelAll, ReadKeyring, registry
<1>13. ASSUME NEW n \in Names, NEW i \in StreamIDs, KeyringEntry(n, i) PROVE Accounted(b)
  <2> DEFINE u == [loc |-> cur.loc, type |-> cur.type, name |-> n]
  <2>1. \E k \in Key : keys' = AddedKeys(k, u) /\ notOpt' = notOpt \cup {<<u.loc, u.type>>}
    BY <1>13 DEF KeyringEntry
  <2>2. <<u.loc, u.type>> \in Buckets
    BY DEF IInv, TypeOK, Buckets
  <2> QED
    BY <1>2, <2>1, <2>2
<1>14. ASSUME EraseHere, cur.idx <= Len(Bucket) PROVE Accounted(b)
  <2>1. /\ keys'[<<cur.loc, cur.type>>] = RemoveAt(Bucket, cur.idx)
        /\ \A c \in Buckets : c # <<cur.loc, cur.type>> => keys'[c] = keys[c]
        /\ cur.idx \in 1..Len(Bucket) /\ Bucket = keys[<<cur.loc, cur.type>>]
        /\ notOpt' = notOpt
    BY <1>14, ErasedKeys, AtIterator DEF EraseHere, Bucket
  <2>2. Kept(b)
    BY <2>1 DEF Kept
  <2> QED
    BY <2>1, <2>2 DEF Accounted
<1>15. CASE CleanupNext
  <2>1. keys' = keys
        /\ notOpt' = IF Bucket = <<>> THEN notOpt \ {<<cur.loc, cur.type>>} ELSE notOpt
    BY <1>15 DEF CleanupNext
  <2>2. CASE b = <<cur.loc, cur.type>> /\ Bucket = <<>>
    <3>1. keys'[b] = <<>>
      BY <2>1, <2>2 DEF Bucket
    <3> QED
      BY <3>1, EmptyIsOrdered DEF Accounted
  <2>3. CASE ~(b = <<cur.loc, cur.type>> /\ Bucket = <<>>)
    BY <2>1, <2>3 DEF Accounted, Kept
  <2> QED
    BY <2>2, <2>3
<1>16. ASSUME NEW listed, NEW opt, KeyringFlags(listed, opt) PROVE Accounted(b)
  <2>1. CASE b = <<cur.loc, cur.type>>
    BY <1>16, <2>1 DEF KeyringFlags, Accounted
  <2>2. CASE b # <<cur.loc, cur.type>>
    BY <1>16, <2>2 DEF KeyringFlags, Accounted, Kept
  <2> QED
    BY <2>1, <2>2
<1>17. CASE KeyringSort
  <2>1. CASE b[1] = cur.loc
    BY <1>17, <2>1, CheckedOrder DEF Accounted
  <2>2. CASE b[1] # cur.loc
    <3>1. PICK new : /\ keys' = [c \in Buckets |-> IF c[1] = cur.loc THEN new[c[2]] ELSE keys[c]]
                     /\ notOpt' = notOpt \cup Misordered(cur.loc, new)
      BY <1>17 DEF KeyringSort, SortKeys, Reordered
    <3>2. b \notin Misordered(cur.loc, new)
      BY <2>2 DEF Misordered
    <3> QED
      BY <2>2, <3>1, <3>2 DEF Accounted, Kept
  <2> QED
    BY <2>1, <2>2
<1>18. CASE Loop
  <2>1. CASE DelAllKey \/ CleanupKey
    <3>1. cur.idx <= Len(Bucket) /\ (EraseHere \/ Advance)
      BY <2>1 DEF DelAllKey, CleanupKey
    <3> QED
      BY <1>1, <1>14, <3>1 DEF Advance, registry
  <2>2. CASE DelAllNext \/ KeyringThrows
    BY <1>1, <2>2 DEF DelAllNext, KeyringThrows, registry
  <2> QED
    BY <1>15, <1>16, <1>17, <1>18, <2>1, <2>2 DEF Loop
<1>19. CASE Call
  BY <1>19, <1>3, <1>4, <1>6, <1>7, <1>8, <1>9, <1>10, <1>11, <1>12, <1>13 DEF Call
<1>20. CASE UNCHANGED vars
  BY <1>1, <1>20 DEF vars
<1> QED
  BY <1>18, <1>19, <1>20 DEF Next

\* No step but setName and the flags that ReadKeyring takes from the file makes
\* a bucket lie, and sortKeys makes every bucket of its page tell the truth.
LEMMA TruthfulStep ==
  ASSUME IInv, [Next]_vars, vars' # vars, ~PreserveIDs, ~Renaming, NEW b \in Buckets
  PROVE  \/ Truthful(b)'
         \/ pc = "keyring" /\ b = <<cur.loc, cur.type>>
         \/ ~Truthful(b) /\ ~(pc = "sort" /\ b[1] = cur.loc)
<1> SUFFICES ASSUME b \notin notOpt', ~InNameOrder(b)',
                    ~(pc = "keyring" /\ b = <<cur.loc, cur.type>>)
             PROVE  ~Truthful(b) /\ ~(pc = "sort" /\ b[1] = cur.loc)
  BY DEF Truthful
<1>1. Kept(b) /\ b \notin notOpt
  BY FlagStep DEF Accounted
<1>2. ~Truthful(b)
  BY <1>1, KeptOrder DEF Truthful
<1>3. ASSUME pc = "sort", b[1] = cur.loc PROVE FALSE
  <2>1. KeyringSort
    BY <1>3, StepsByLoop
  <2> QED
    BY <1>3, <2>1, CheckedOrder
<1> QED
  BY <1>2, <1>3

\* kNotOptimized, without preserveIDs (which leaves sortKeys out): whatever the
\* pages say and however keys come and go, the only steps after which an
\* unflagged bucket may be out of the order of its names, and was in it or was
\* flagged before, are setName and the flags that ReadKeyring takes from the
\* file (plResManager.cpp:506); and where ReadKeyring gets as far as sortKeys
\* every bucket of the page tells the truth after it.
THEOREM FlagsCorrect == Spec => FlagStaysTruthful
<1>1. IInv /\ [Next]_vars =>
        [~PreserveIDs /\ ~Renaming =>
           \A b \in Buckets :
             \/ Truthful(b)'
             \/ pc = "keyring" /\ b = <<cur.loc, cur.type>>
             \/ ~Truthful(b) /\ ~(pc = "sort" /\ b[1] = cur.loc)]_vars
  BY TruthfulStep
<1> QED
  BY <1>1, Invariance, PTL DEF Spec, FlagStaysTruthful

-----------------------------------------------------------------------------
(* Object IDs: positions.                                                  *)

\* There are fewer keys than object IDs (2^32): every plKeyData takes more
\* than one byte of memory.
FewKeys == Cardinality(Key) < IDMod

\* Positions are below IDMod, so that the modulus leaves them alone.
LEMMA ModSmall ==
  ASSUME NEW n \in Nat, n < IDMod
  PROVE  n % IDMod = n /\ (n + IDMod) % IDMod = n
<1>1. IDMod \in Nat /\ IDMod > 0
  BY IDAssumption
<1>2. n % IDMod = n
  BY <1>1
<1>3. (n + IDMod) % IDMod = n
  BY <1>1
<1> QED BY <1>2, <1>3

\* A bucket holds no more keys than there are.
LEMMA BucketSize ==
  ASSUME NEW s \in Seq(Key), IsInjective(s)
  PROVE  Len(s) \in Nat /\ Cardinality(Key) \in Nat /\ Len(s) <= Cardinality(Key)
<1>1. IsFiniteSet(Key) /\ Cardinality(Key) \in Nat
  BY KeyAssumption, FS_CardinalityType
<1>2. Len(s) \in Nat /\ s \in [1..Len(s) -> Key]
  OBVIOUS
<1>3. s \in Injection(1..Len(s), Key)
  BY <1>2 DEF Injection, IsInjective
<1>4. IsFiniteSet(1..Len(s)) /\ Cardinality(1..Len(s)) = Len(s)
  <2>1. Len(s) \in Int /\ 1 \in Int
    BY <1>2
  <2>2. /\ IsFiniteSet(1..Len(s))
        /\ Cardinality(1..Len(s)) = IF 1 > Len(s) THEN 0 ELSE Len(s) - 1 + 1
    BY <2>1, FS_Interval
  <2> QED
    BY <1>2, <2>2
<1>5. Cardinality(1..Len(s)) <= Cardinality(Key)
  BY <1>1, <1>3, <1>4, FS_Injection
<1> QED
  BY <1>1, <1>2, <1>4, <1>5

\* Positions in a bucket are object IDs.
LEMMA PositionIsID ==
  ASSUME FewKeys, NEW s \in Seq(Key), IsInjective(s), NEW i \in 1..Len(s)
  PROVE  i \in Nat /\ i < IDMod /\ i % IDMod = i /\ (i + IDMod) % IDMod = i
<1>1. Len(s) \in Nat /\ Cardinality(Key) \in Nat /\ Len(s) <= Cardinality(Key)
  BY BucketSize
<1>2. IDMod \in Nat
  BY IDAssumption
<1>3. i \in Nat /\ i < IDMod
  BY <1>1, <1>2 DEF FewKeys
<1> QED
  BY <1>3, ModSmall

\* Where a key is found in a bucket without duplicates.
LEMMA PositionOf ==
  ASSUME NEW s \in Seq(Key), IsInjective(s), NEW i \in 1..Len(s)
  PROVE  Position(s, s[i]) = i
<1>1. \A j \in DOMAIN s : s[j] = s[i] => j = i
  BY DEF IsInjective
<1>2. i \in DOMAIN s
  OBVIOUS
<1> QED
  BY <1>1, <1>2 DEF Position

\* A bucket that stays and whose keys keep their IDs.
LEMMA UntouchedIDs ==
  ASSUME NEW b \in Buckets, Contiguous(b), keys'[b] = keys[b],
         \A i \in DOMAIN keys[b] : id'[keys[b][i]] = id[keys[b][i]]
  PROVE  Contiguous(b)'
BY DEF Contiguous

\* sortKeys and optimizeKeys number the buckets of the page 1, 2, ...
LEMMA ReorderedIDs ==
  ASSUME FewKeys, IInv, IInv', NEW l \in Locs, NEW new, Reordered(l, new),
         uoid' = uoid, NEW b \in Buckets, b[1] = l
  PROVE  Contiguous(b)'
<1>1. b[2] \in Types /\ b = <<l, b[2]>>
  BY DEF Buckets
<1> DEFINE s == new[b[2]]
<1>2. keys'[b] = s
  BY DEF Reordered
<1>3. s \in Seq(Key) /\ IsInjective(s) /\ \A i \in 1..Len(s) : s[i] \in Key /\ s[i] \in Range(s)
  <2>1. s \in Seq(Key) /\ IsInjective(s)
    BY <1>2 DEF IInv, TypeOK, Placed, PlacedIn
  <2> QED
    BY <2>1 DEF Range
<1>4. ASSUME NEW i \in 1..Len(s) PROVE id'[s[i]] = i
  <2>1. uoid[s[i]].loc = l /\ uoid[s[i]].type = b[2]
    <3>1. <<uoid[s[i]].loc, uoid[s[i]].type>> = b
      BY <1>2, <1>3 DEF IInv, Placed, PlacedIn
    <3> QED
      BY <3>1
  <2>2. id'[s[i]] = Position(s, s[i]) % IDMod
    BY <1>3, <2>1 DEF Reordered
  <2> HIDE DEF s
  <2> QED
    BY <1>3, <2>2, PositionOf, PositionIsID
<1> QED
  BY <1>2, <1>3, <1>4 DEF Contiguous

\* The step that ends ReadKeyring leaves the IDs of the page contiguous.
LEMMA KeyringSortIDs ==
  ASSUME FewKeys, IInv, [Next]_vars, pc = "sort", pc' = "idle", ~PreserveIDs,
         NEW l \in Locs, cur.loc = l, NEW t \in Types
  PROVE  Contiguous(<<l, t>>)'
<1>1. IInv' /\ KeyringSort
  BY NextInv, StepsByLoop DEF vars
<1>2. PICK new : Reordered(l, new) /\ uoid' = uoid
  BY <1>1 DEF KeyringSort, SortKeys
<1>3. <<l, t>> \in Buckets /\ <<l, t>>[1] = l
  BY DEF Buckets
<1> QED
  BY <1>1, <1>2, <1>3, ReorderedIDs

\* "Renumbering any keys that have duplicated IDs and ensuring that all key IDs
\* are contiguous": so ReadKeyring leaves every bucket of the page it has read,
\* as long as there are fewer keys than object IDs.
THEOREM KeyringRenumbers == ASSUME FewKeys PROVE Spec => KeyringLeavesContiguous
<1>1. IInv /\ [Next]_vars
        => [\A l \in Locs :
              (pc = "sort" /\ pc' = "idle" /\ cur.loc = l /\ ~PreserveIDs) =>
                \A t \in Types : Contiguous(<<l, t>>)']_vars
  BY KeyringSortIDs
<1> QED
  BY <1>1, Invariance, PTL DEF Spec, KeyringLeavesContiguous

\* A key without a location has no ID yet, so that add gives it one.
Blank ==
  \A k \in Key : /\ refCnt[k] = 0 => uoid[k].loc = NoLoc
                 /\ uoid[k].loc = NoLoc => id[k] = 0

\* What a step does to the location and the ID of a key.
StillBlank(k) ==
  \/ uoid'[k].loc = NoLoc /\ id'[k] = 0
  \/ uoid'[k].loc # NoLoc /\ refCnt'[k] # 0
  \/ /\ uoid'[k].loc = uoid[k].loc /\ id'[k] = id[k]
     /\ refCnt'[k] = 0 => refCnt[k] = 0

\* A key that can be named is allocated.
LEMMA ReachableLives == ASSUME IInv, NEW k \in Key, Reachable(k) PROVE refCnt[k] # 0
BY FreeHasNoOwner DEF IInv, Reachable

\* A datum whose count falls to 0 is deleted; the others get the IDs of ids.
LEMMA SettledBlank ==
  ASSUME NEW k \in Key, NEW ids, NEW rc, Settle(uoid, ids, rc),
         ids[k] = id[k] \/ uoid[k].loc # NoLoc
  PROVE  StillBlank(k)
<1>1. CASE rc[k] = 0
  BY <1>1 DEF Settle, StillBlank, NoUoid
<1>2. CASE rc[k] # 0
  BY <1>2 DEF Settle, StillBlank
<1> QED
  BY <1>1, <1>2

\* The keys behind one in its bucket.
LEMMA KeysBehind ==
  ASSUME NEW s \in Seq(Key), NEW k \in Range(s)
  PROVE  /\ Position(s, k) \in 1..Len(s) /\ s[Position(s, k)] = k
         /\ \A x : x \in Range(SubSeq(s, Position(s, k) + 1, Len(s)))
                  <=> \E i \in 1..Len(s) : i > Position(s, k) /\ s[i] = x
<1>1. Position(s, k) \in 1..Len(s) /\ s[Position(s, k)] = k
  BY DEF Position, Range
<1>2. PICK p \in 1..Len(s) : p = Position(s, k)
  BY <1>1
<1> DEFINE t == SubSeq(s, p + 1, Len(s))
<1>3. /\ t \in Seq(Key) /\ Len(t) = Len(s) - p /\ Len(s) \in Nat
      /\ \A i \in 1..Len(s) - p : t[i] = s[p + i]
  OBVIOUS
<1> HIDE DEF t
<1>4. ASSUME NEW x \in Range(t) PROVE \E i \in 1..Len(s) : i > p /\ s[i] = x
  <2>1. PICK j \in 1..Len(s) - p : t[j] = x
    BY <1>3 DEF Range
  <2>2. p + j \in 1..Len(s) /\ p + j > p /\ s[p + j] = x
    BY <1>3, <2>1
  <2> QED
    BY <2>2
<1>5. ASSUME NEW i \in 1..Len(s), i > p PROVE s[i] \in Range(t)
  <2>1. i - p \in 1..Len(s) - p /\ p + (i - p) = i
    BY <1>3, <1>5
  <2>2. t[i - p] = s[i] /\ i - p \in DOMAIN t
    BY <1>3, <2>1
  <2> QED
    BY <2>2 DEF Range
<1> QED
  BY <1>1, <1>2, <1>4, <1>5 DEF t

\* The keys that an erasure renumbers are registered, so they have a location.
LEMMA RenumberedBlank ==
  ASSUME IInv, NEW b \in Buckets, NEW k \in Key, NEW x \in Key
  PROVE  Renumbered(keys[b], k)[x] = id[x] \/ (Registered(x) /\ uoid[x].loc # NoLoc)
<1>1. PICK s \in Seq(Key) : s = keys[b]
  BY DEF IInv, TypeOK
<1>2. CASE k \in Range(s) /\ x \in Range(SubSeq(s, Position(s, k) + 1, Len(s)))
  <2>1. x \in Range(s)
    <3>1. \E i \in 1..Len(s) : s[i] = x
      BY <1>2, KeysBehind
    <3> QED
      BY <1>1, <3>1 DEF Range
  <2> QED
    BY <1>1, <2>1, RegisteredHasLoc DEF IInv, Registered, Locs, NoLoc
<1>3. CASE ~(k \in Range(s) /\ x \in Range(SubSeq(s, Position(s, k) + 1, Len(s))))
  BY <1>1, <1>3 DEF Renumbered
<1> QED
  BY <1>2, <1>3

\* No step leaves a key without a location with an ID.
LEMMA BlankStep ==
  ASSUME IInv, Blank, [Next]_vars
  PROVE  Blank'
<1> SUFFICES ASSUME NEW x \in Key PROVE StillBlank(x)
  BY DEF Blank, StillBlank
<1>0. /\ uoid \in [Key -> Uoids] /\ id \in [Key -> IDs] /\ refCnt \in [Key -> Nat]
      /\ IInv' /\ NoLoc \notin Locs
  BY NextInv DEF IInv, TypeOK, Uoids, IDs, NoLoc, Locs
<1>1. ASSUME UNCHANGED <<uoid, id>>, refCnt'[x] = 0 => refCnt[x] = 0
      PROVE  StillBlank(x)
  BY <1>1 DEF StillBlank
<1>3. ASSUME NEW h \in Holders, NEW u \in Uoid, NEW i \in StreamIDs, ReadKnownKey(h, u, i)
      PROVE  StillBlank(x)
  <2> DEFINE k == FindKey(u)
  <2>1. /\ refCnt' = [refCnt EXCEPT ![k] = @ + 1] /\ uoid' = uoid
        /\ id' = [id EXCEPT ![k] = i] \/ id' = id
    BY <1>3 DEF ReadKnownKey, KnownKey
  <2>2. k \in Key /\ Registered(k) /\ uoid[k] = u /\ u.loc # NoLoc
    BY <1>0, <1>3, FoundKey, UoidBucket DEF ReadKnownKey, KnownKey, IInv, Uoid
  <2> HIDE DEF k
  <2>3. refCnt'[k] = refCnt[k] + 1 /\ \A y \in Key : y # k => refCnt'[y] = refCnt[y] /\ id'[y] = id[y]
    BY <1>0, <2>1, <2>2
  <2>4. refCnt'[k] # 0
    BY <1>0, <2>2, <2>3
  <2> QED
    BY <2>1, <2>2, <2>3, <2>4 DEF StillBlank
<1>4. ASSUME NEW h \in Holders, NEW u \in Uoid, NEW i \in StreamIDs, ReadNewKey(h, u, i)
      PROVE  StillBlank(x)
  <2>1. u \in Uoids /\ u.loc # NoLoc
    BY <1>0, UoidBucket DEF Uoid
  <2>2. PICK k, j :
          /\ k \in Key /\ uoid' = [uoid EXCEPT ![k] = u] /\ id' = [id EXCEPT ![k] = j]
          /\ refCnt' = [refCnt EXCEPT ![k] = 2]
    BY <1>4 DEF ReadNewKey
  <2> QED
    BY <1>0, <2>1, <2>2 DEF StillBlank
<1>5. ASSUME NEW k \in Key, NEW t \in Types, NEW n \in Names, InitObject(k, t, n)
      PROVE  StillBlank(x)
  <2>1. /\ uoid' = [uoid EXCEPT ![k] = [loc |-> NoLoc, type |-> t, name |-> n]]
        /\ refCnt' = [refCnt EXCEPT ![k] = 1] /\ id' = id /\ refCnt[k] = 0
    BY <1>0, <1>5 DEF InitObject, Allocated
  <2>2. id[k] = 0
    BY <2>1 DEF Blank
  <2> QED
    BY <1>0, <2>1, <2>2 DEF StillBlank
<1>19. ASSUME NEW k \in Key, NEW n \in Names, SetName(k, n) PROVE StillBlank(x)
  <2>1. uoid' = [uoid EXCEPT ![k].name = n] /\ UNCHANGED <<id, refCnt>>
    BY <1>19 DEF SetName
  <2>2. uoid'[x].loc = uoid[x].loc
    BY <1>0, <2>1 DEF Uoids
  <2> QED
    BY <2>1, <2>2 DEF StillBlank
<1>6. ASSUME NEW k \in Key, AcquireHandle(k) \/ LoadObject(k) PROVE StillBlank(x)
  <2>1. refCnt' = [refCnt EXCEPT ![k] = @ + 1] /\ UNCHANGED <<uoid, id>>
    BY <1>6 DEF AcquireHandle, LoadObject
  <2>2. refCnt'[x] = 0 => refCnt[x] = 0
    BY <1>0, <2>1
  <2> QED
    BY <1>1, <2>1, <2>2
<1>7. ASSUME NEW k \in Key, ReleaseHandle(k) PROVE StillBlank(x)
  BY <1>7, SettledBlank DEF ReleaseHandle
<1>8. ASSUME NEW k \in Key, DelKey(k) PROVE StillBlank(x)
  <2>1. \E rc : Settle(uoid, Renumbered(keys[Home(k)], k), rc)
    BY <1>8 DEF DelKey
  <2>2. Renumbered(keys[Home(k)], k)[x] = id[x] \/ uoid[x].loc # NoLoc
    BY RenumberedBlank, HomeIsBucket DEF IInv
  <2> QED
    BY <2>1, <2>2, SettledBlank
<1>9. ASSUME NEW k \in Key, NEW l \in Locs, AddObject(l, k) PROVE StillBlank(x)
  <2> DEFINE u == [uoid[k] EXCEPT !.loc = l]
  <2>1. /\ uoid' = [uoid EXCEPT ![k] = u] /\ k \in loaded
        /\ \/ id' = id /\ refCnt' = refCnt
           \/ id' = [id EXCEPT ![k] = AddedID(u, @)] /\ refCnt' = [refCnt EXCEPT ![k] = @ + 1]
    BY <1>9 DEF AddObject
  <2>2. u.loc = l /\ l # NoLoc
    BY <1>0 DEF Uoids
  <2>3. refCnt[k] # 0 /\ refCnt'[k] # 0 /\ \A y \in Key : y # k => refCnt'[y] = refCnt[y]
    <3>1. refCnt[k] # 0
      BY <2>1, ReachableLives DEF Reachable
    <3> QED
      BY <1>0, <2>1, <3>1
  <2>4. CASE x = k
    BY <1>0, <2>1, <2>2, <2>3, <2>4 DEF StillBlank
  <2>5. CASE x # k
    <3>1. uoid'[x] = uoid[x] /\ id'[x] = id[x]
      BY <1>0, <2>1, <2>5
    <3> QED
      BY <2>3, <2>5, <3>1 DEF StillBlank
  <2> QED
    BY <2>4, <2>5
<1>10. ASSUME NEW k \in Key, NEW l \in Locs, MoveKey(k, l) PROVE StillBlank(x)
  <2> DEFINE d == WithoutDrop(keys[Home(k)], k)
  <2>1. /\ uoid' = [uoid EXCEPT ![k] = [@ EXCEPT !.loc = l]]
        /\ refCnt' = [refCnt EXCEPT ![k] = @ + 1 - d]
        /\ \E i : id' = [Renumbered(keys[Home(k)], k) EXCEPT ![k] = i]
        /\ Reachable(k)
    BY <1>10 DEF MoveKey
  <2>2. d \in {0, 1} /\ refCnt[k] # 0
    BY <2>1, WithoutDropBound, ReachableLives DEF IInv
  <2>3. refCnt'[k] = refCnt[k] + 1 - d /\ uoid'[k].loc = l
    BY <1>0, <2>1 DEF Uoids
  <2>4. CASE x = k
    <3>1. refCnt'[k] # 0
      <4> HIDE DEF d
      <4>1. refCnt[k] \in Nat
        BY <1>0
      <4> QED
        BY <2>2, <2>3, <4>1
    <3> QED
      BY <1>0, <2>3, <2>4, <3>1 DEF StillBlank
  <2>5. CASE x # k
    <3>1. /\ uoid'[x] = uoid[x] /\ refCnt'[x] = refCnt[x]
          /\ id'[x] = Renumbered(keys[Home(k)], k)[x]
      BY <1>0, <2>1, <2>5 DEF Renumbered
    <3>2. Renumbered(keys[Home(k)], k)[x] = id[x] \/ (Registered(x) /\ uoid[x].loc # NoLoc)
      BY RenumberedBlank, HomeIsBucket DEF IInv
    <3>3. Registered(x) => refCnt[x] # 0
      BY RegisteredIsLive DEF RegisteredLives
    <3> QED
      BY <3>1, <3>2, <3>3 DEF StillBlank
  <2> QED
    BY <2>4, <2>5
<1>11. ASSUME NEW l \in Locs, NEW m \in Locs, ChangeLocation(l, m) PROVE StillBlank(x)
  <2> DEFINE moved == \E t \in Types : x \in Range(keys[<<l, t>>])
  <2>1. /\ uoid'[x] = IF moved THEN [uoid[x] EXCEPT !.loc = m] ELSE uoid[x]
        /\ ~moved => id'[x] = id[x]
        /\ refCnt' = refCnt
    BY <1>11 DEF ChangeLocation
  <2>2. moved => refCnt[x] # 0
    <3>1. moved => Registered(x)
      BY DEF Registered, Buckets
    <3> QED
      BY <3>1, RegisteredIsLive DEF RegisteredLives
  <2>3. moved => uoid'[x].loc = m /\ m # NoLoc
    BY <1>0, <2>1 DEF Uoids
  <2> HIDE DEF moved
  <2> QED
    BY <2>1, <2>2, <2>3 DEF StillBlank
<1>12. ASSUME NEW l \in Locs, ChangeLocationFlags(l) PROVE StillBlank(x)
  <2>1. \E rc : Settle(uoid, id, rc)
    BY <1>12 DEF ChangeLocationFlags
  <2> QED
    BY <2>1, SettledBlank
<1>13. ASSUME NEW l \in Locs, NEW new, Reordered(l, new), UNCHANGED <<uoid, refCnt>>
       PROVE  StillBlank(x)
  <2>1. id'[x] = id[x] \/ uoid[x].loc = l
    BY <1>13 DEF Reordered
  <2>2. uoid[x].loc = l => refCnt[x] # 0
    BY <1>0 DEF Blank
  <2> QED
    BY <1>0, <1>13, <2>1, <2>2 DEF StillBlank
<1>14. ASSUME NEW l \in Locs, OptimizeKeys(l) \/ DelAll(l) \/ ReadKeyring(l)
       PROVE  StillBlank(x)
  <2>1. CASE OptimizeKeys(l)
    BY <1>13, <2>1 DEF OptimizeKeys
  <2>2. CASE DelAll(l) \/ ReadKeyring(l)
    BY <1>1, <2>2 DEF DelAll, ReadKeyring, data
  <2> QED
    BY <1>14, <2>1, <2>2
<1>15. ASSUME NEW n \in Names, NEW i \in StreamIDs, KeyringEntry(n, i) PROVE StillBlank(x)
  <2> DEFINE u == [loc |-> cur.loc, type |-> cur.type, name |-> n]
  <2>1. PICK k, j :
          /\ k \in Key /\ uoid' = [uoid EXCEPT ![k] = u] /\ id' = [id EXCEPT ![k] = j]
          /\ refCnt' = [refCnt EXCEPT ![k] = 1]
    BY <1>15 DEF KeyringEntry
  <2>2. u \in Uoids /\ u.loc # NoLoc
    <3>1. cur.loc \in Locs
      BY <1>15 DEF KeyringEntry, IInv, Anchored
    <3> QED
      BY <1>0, <3>1 DEF IInv, TypeOK, Uoids
  <2> HIDE DEF u
  <2> QED
    BY <1>0, <2>1, <2>2 DEF StillBlank
<1>16. CASE Loop
  <2>1. CASE DelAllKey \/ CleanupKey
    <3>1. EraseHere \/ Advance
      BY <2>1 DEF DelAllKey, CleanupKey
    <3>2. CASE EraseHere
      <4>1. \E rc : Settle(uoid, id, rc)
        BY <3>2 DEF EraseHere
      <4> QED
        BY <4>1, SettledBlank
    <3> QED
      BY <1>1, <3>1, <3>2 DEF Advance, data
  <2>2. CASE DelAllNext \/ CleanupNext \/ KeyringThrows
    BY <1>1, <2>2 DEF DelAllNext, CleanupNext, KeyringThrows, data
  <2>3. ASSUME NEW listed, NEW opt, KeyringFlags(listed, opt) PROVE StillBlank(x)
    BY <1>1, <2>3 DEF KeyringFlags, data
  <2>4. CASE KeyringSort
    <3>1. UNCHANGED <<uoid, refCnt>> /\ cur.loc \in Locs
      BY <2>4 DEF KeyringSort, IInv, Anchored
    <3> QED
      BY <1>1, <1>13, <2>4, <3>1 DEF KeyringSort, SortKeys
  <2> QED
    BY <1>16, <2>1, <2>2, <2>3, <2>4 DEF Loop
<1>17. CASE Call
  BY <1>17, <1>19, <1>3, <1>4, <1>5, <1>6, <1>7, <1>8, <1>9, <1>10, <1>11, <1>12, <1>14, <1>15 DEF Call
<1>18. CASE UNCHANGED vars
  BY <1>1, <1>18 DEF vars
<1> QED
  BY <1>16, <1>17, <1>18 DEF Next

\* A step that leaves the bucket alone and the IDs of the registered keys.
LEMMA UntouchedBucket ==
  ASSUME IInv, NEW b \in Buckets, Contiguous(b), keys'[b] = keys[b],
         \A x \in Key : Registered(x) /\ Home(x) = b => id'[x] = id[x]
  PROVE  Contiguous(b)'
<1>1. ASSUME NEW i \in DOMAIN keys[b] PROVE id'[keys[b][i]] = id[keys[b][i]]
  <2>1. PICK x : x = keys[b][i]
    OBVIOUS
  <2>2. x \in Key /\ Registered(x)
    BY <2>1, MembersRegistered DEF Membership
  <2>3. Home(x) = b
    BY <2>1 DEF IInv, Placed, PlacedIn, Range, Home
  <2> QED
    BY <2>1, <2>2, <2>3
<1> QED
  BY <1>1, UntouchedIDs

\* The ID that a settled datum keeps.
LEMMA SettledID ==
  ASSUME RegisteredLives', NEW uo, NEW ids, NEW rc, Settle(uo, ids, rc),
         NEW x \in Key, Registered(x)'
  PROVE  id'[x] = ids[x]
<1>1. refCnt'[x] # 0
  BY DEF RegisteredLives
<1> QED
  BY <1>1 DEF Settle

\* The IDs of a bucket after the loop of del and MoveKey over it.
LEMMA WithoutIDs ==
  ASSUME FewKeys, IInv, NEW b \in Buckets, NEW k \in Key, Contiguous(b),
         NEW r, r = Without(keys[b], k)
  PROVE  \A i \in DOMAIN r : Renumbered(keys[b], k)[r[i]] = i
<1>1. PICK s \in Seq(Key) : s = keys[b]
  BY DEF IInv, TypeOK
<1>2. /\ IsInjective(s) /\ Len(s) \in Nat /\ DOMAIN s = 1..Len(s)
      /\ \A i \in 1..Len(s) : s[i] \in Key /\ id[s[i]] = i
  BY <1>1 DEF IInv, Placed, PlacedIn, Contiguous
<1>3. CASE k \notin Range(s)
  <2>1. r = s
    BY <1>1, <1>3 DEF Without
  <2>2. \A x \in Key : Renumbered(s, k)[x] = id[x]
    BY <1>3 DEF Renumbered
  <2> QED
    BY <1>1, <1>2, <2>1, <2>2
<1>4. CASE k \in Range(s)
  <2>1. PICK p \in 1..Len(s) : p = Position(s, k)
    BY <1>4, KeysBehind
  <2>2. ASSUME NEW j \in 1..Len(s)
        PROVE  Renumbered(s, k)[s[j]] = IF j > p THEN j - 1 ELSE j
    <3>1. s[j] \in Range(SubSeq(s, p + 1, Len(s))) <=> j > p
      <4>1. s[j] \in Range(SubSeq(s, p + 1, Len(s)))
              <=> \E i \in 1..Len(s) : i > p /\ s[i] = s[j]
        BY <1>4, <2>1, KeysBehind
      <4>2. \A i \in 1..Len(s) : s[i] = s[j] => i = j
        BY <1>2 DEF IsInjective
      <4> QED
        BY <4>1, <4>2
    <3>2. Renumbered(s, k)[s[j]] = IF j > p THEN (id[s[j]] + IDMod - 1) % IDMod ELSE id[s[j]]
      BY <1>2, <1>4, <2>1, <3>1 DEF Renumbered
    <3>3. j > p => (j + IDMod - 1) % IDMod = j - 1
      <4>1. ASSUME j > p PROVE j - 1 \in 1..Len(s)
        BY <1>2, <4>1
      <4>2. ASSUME j > p PROVE ((j - 1) + IDMod) % IDMod = j - 1
        BY <1>2, <4>1, <4>2, PositionIsID
      <4>3. (j - 1) + IDMod = j + IDMod - 1
        BY IDAssumption
      <4> QED
        BY <4>2, <4>3
    <3> QED
      BY <1>2, <3>2, <3>3
  <2>3. /\ r \in Seq(Key) /\ Len(r) = Len(s) - 1
        /\ \A j \in 1..Len(s) - 1 : r[j] = IF j < p THEN s[j] ELSE s[j + 1]
    <3>1. r = RemoveAt(s, p)
      BY <1>1, <1>4, <2>1 DEF Without
    <3> QED
      BY <3>1, RemoveAtSeq
  <2>4. ASSUME NEW i \in 1..Len(s) - 1 PROVE Renumbered(s, k)[r[i]] = i
    <3>1. CASE i < p
      <4>1. i \in 1..Len(s) /\ r[i] = s[i] /\ ~(i > p)
        BY <1>2, <2>3, <3>1
      <4> QED
        BY <2>2, <4>1
    <3>2. CASE ~(i < p)
      <4>1. i + 1 \in 1..Len(s) /\ r[i] = s[i + 1] /\ i + 1 > p /\ (i + 1) - 1 = i
        BY <1>2, <2>3, <3>2
      <4> QED
        BY <2>2, <4>1
    <3> QED
      BY <3>1, <3>2
  <2>5. DOMAIN r = 1..Len(s) - 1
    BY <1>2, <2>3
  <2> QED
    BY <1>1, <2>4, <2>5
<1> QED
  BY <1>3, <1>4

\* The keys of other buckets keep their IDs there.
LEMMA OthersIDs ==
  ASSUME IInv, NEW c \in Buckets, NEW k \in Key, NEW x \in Key, x \notin Range(keys[c])
  PROVE  Renumbered(keys[c], k)[x] = id[x]
<1>1. PICK s \in Seq(Key) : s = keys[c]
  BY DEF IInv, TypeOK
<1>2. ~(k \in Range(s) /\ x \in Range(SubSeq(s, Position(s, k) + 1, Len(s))))
  <2> SUFFICES ASSUME k \in Range(s), x \in Range(SubSeq(s, Position(s, k) + 1, Len(s)))
               PROVE  FALSE
    OBVIOUS
  <2>1. \E i \in 1..Len(s) : s[i] = x
    BY KeysBehind
  <2> QED
    BY <1>1, <2>1 DEF Range
<1> QED
  BY <1>1, <1>2 DEF Renumbered

\* A key at the end of a bucket, with the next ID.
LEMMA AppendedIDs ==
  ASSUME FewKeys, IInv', NEW b \in Buckets, NEW s \in Seq(Key), NEW k \in Key,
         keys'[b] = Append(s, k), id'[k] = (Len(s) + 1) % IDMod,
         \A i \in DOMAIN s : id'[s[i]] = i
  PROVE  Contiguous(b)'
<1>1. /\ Append(s, k) \in Seq(Key) /\ Len(Append(s, k)) = Len(s) + 1 /\ Len(s) \in Nat
      /\ \A i \in 1..Len(s) : Append(s, k)[i] = s[i]
      /\ Append(s, k)[Len(s) + 1] = k /\ DOMAIN s = 1..Len(s)
  OBVIOUS
<1>2. IsInjective(Append(s, k))
  BY DEF IInv, Placed, PlacedIn
<1>3. Len(s) + 1 \in 1..Len(Append(s, k))
  BY <1>1
<1>4. id'[k] = Len(s) + 1
  BY <1>1, <1>2, <1>3, PositionIsID
<1>5. ASSUME NEW i \in 1..Len(s) + 1 PROVE id'[Append(s, k)[i]] = i
  BY <1>1, <1>4
<1>6. DOMAIN Append(s, k) = 1..Len(s) + 1
  BY <1>1
<1> QED
  BY <1>5, <1>6 DEF Contiguous

\* add, of a key that had no ID.
LEMMA AddedIDs ==
  ASSUME FewKeys, IInv, IInv', NEW k \in Key, ~Registered(k),
         NEW u, <<u.loc, u.type>> \in Buckets, keys' = AddedKeys(k, u),
         id' = [id EXCEPT ![k] = AddedID(u, 0)], NEW b \in Buckets, Contiguous(b)
  PROVE  Contiguous(b)'
<1> DEFINE c == <<u.loc, u.type>>
<1>1. /\ keys \in [Buckets -> Seq(Key)] /\ keys[c] \in Seq(Key) /\ id \in [Key -> IDs]
      /\ keys' = [keys EXCEPT ![c] = Append(@, k)]
      /\ id'[k] = (Len(keys[c]) + 1) % IDMod
      /\ \A x \in Key : x # k => id'[x] = id[x]
  BY DEF IInv, TypeOK, AddedKeys, AddedID, IDs
<1> HIDE DEF c
<1>2. CASE b = c
  <2>1. keys'[b] = Append(keys[b], k) /\ keys[b] \in Seq(Key)
    BY <1>1, <1>2
  <2>2. ASSUME NEW i \in DOMAIN keys[b] PROVE id'[keys[b][i]] = i
    <3>1. keys[b][i] \in Key /\ Registered(keys[b][i])
      BY MembersRegistered DEF Membership
    <3> QED
      BY <1>1, <3>1 DEF Contiguous
  <2> QED
    BY <1>1, <1>2, <2>1, <2>2, AppendedIDs
<1>3. CASE b # c
  <2>1. keys'[b] = keys[b]
    BY <1>1, <1>3
  <2> QED
    BY <1>1, <2>1, UntouchedBucket
<1> QED
  BY <1>2, <1>3

\* del.
LEMMA DelKeyIDs ==
  ASSUME FewKeys, IInv, [Next]_vars, NEW k \in Key, DelKey(k),
         NEW b \in Buckets, Contiguous(b)
  PROVE  Contiguous(b)'
<1> DEFINE h == Home(k)
<1>1. /\ keys' = [keys EXCEPT ![h] = Without(keys[h], k)]
      /\ \E rc : Settle(uoid, Renumbered(keys[h], k), rc)
  BY DEF DelKey
<1>2. /\ h \in Buckets /\ keys \in [Buckets -> Seq(Key)] /\ RegisteredLives'
      /\ Membership /\ Membership'
  <2>1. IInv' /\ (IInv' => RegisteredLives')
    BY NextInv, RegisteredIsLive, PTL
  <2> QED
    BY <2>1, HomeIsBucket, MembersNext DEF IInv, TypeOK
<1> HIDE DEF h
<1>3. ASSUME NEW x \in Key, Registered(x)' PROVE id'[x] = Renumbered(keys[h], k)[x]
  BY <1>1, <1>2, <1>3, SettledID
<1>4. CASE b = h
  <2>1. PICK r : r = Without(keys[b], k) /\ keys'[b] = r
    BY <1>1, <1>2, <1>4
  <2>2. \A i \in DOMAIN r : Renumbered(keys[b], k)[r[i]] = i
    BY <1>2, <2>1, WithoutIDs
  <2>3. ASSUME NEW i \in DOMAIN r PROVE id'[r[i]] = i
    <3>1. r[i] \in Key /\ Registered(r[i])'
      BY <1>2, <2>1 DEF Membership
    <3> QED
      BY <1>3, <1>4, <2>2, <3>1
  <2> QED
    BY <2>1, <2>3 DEF Contiguous
<1>5. CASE b # h
  <2>1. keys'[b] = keys[b]
    BY <1>1, <1>2, <1>5
  <2>2. ASSUME NEW x \in Key, Registered(x), Home(x) = b PROVE id'[x] = id[x]
    <3>1. x \in Range(keys[b]) /\ x \notin Range(keys[h])
      BY <1>2, <1>5, <2>2, RegisteredAtHome DEF IInv, Placed, PlacedIn, Home
    <3>2. Registered(x)'
      BY <2>1, <3>1 DEF Registered
    <3> QED
      BY <1>2, <1>3, <3>1, <3>2, OthersIDs
  <2> QED
    BY <2>1, <2>2, UntouchedBucket
<1> QED
  BY <1>4, <1>5

\* MoveKey, into another bucket or to the end of its own.
LEMMA MoveKeyIDs ==
  ASSUME FewKeys, IInv, [Next]_vars, NEW k \in Key, NEW to \in Locs, MoveKey(k, to),
         NEW b \in Buckets, Contiguous(b)
  PROVE  Contiguous(b)'
<1> DEFINE h == Home(k)
           c == <<to, uoid[k].type>>
<1>1. PICK left :
        /\ left = [keys EXCEPT ![h] = Without(keys[h], k)]
        /\ keys' = [left EXCEPT ![c] = Append(@, k)]
        /\ id' = [Renumbered(keys[h], k) EXCEPT ![k] = (Len(left[c]) + 1) % IDMod]
  BY DEF MoveKey
<1>2. /\ h \in Buckets /\ c \in Buckets /\ keys \in [Buckets -> Seq(Key)] /\ IInv'
  BY NextInv, HomeIsBucket DEF IInv, TypeOK, Buckets
<1>3. /\ left \in [Buckets -> Seq(Key)]
      /\ \A x \in Key : RegisteredIn(left, x) <=> (Registered(x) /\ x # k)
  BY <1>1, WithoutRemoves
<1> HIDE DEF h, c
<1>4. /\ id'[k] = (Len(left[c]) + 1) % IDMod
      /\ \A x \in Key : x # k => id'[x] = Renumbered(keys[h], k)[x]
  BY <1>1 DEF Renumbered
<1>5. ASSUME NEW i \in DOMAIN left[b] PROVE id'[left[b][i]] = i
  <2>1. PICK x : x = left[b][i]
    OBVIOUS
  <2>2. x \in Key /\ x \in Range(left[b])
    BY <1>3, <2>1 DEF Range
  <2>3. x # k
    BY <1>3, <2>2 DEF RegisteredIn
  <2>4. CASE b = h
    <3>1. PICK r : r = Without(keys[b], k) /\ left[b] = r
      BY <1>1, <1>2, <2>4
    <3>2. \A j \in DOMAIN r : Renumbered(keys[b], k)[r[j]] = j
      BY <3>1, WithoutIDs
    <3> QED
      BY <1>4, <2>1, <2>2, <2>3, <2>4, <3>1, <3>2
  <2>5. CASE b # h
    <3>1. left[b] = keys[b]
      BY <1>1, <1>2, <2>5
    <3>2. x \notin Range(keys[h])
      BY <1>2, <2>2, <2>5, <3>1 DEF IInv, Placed, PlacedIn
    <3>3. id'[x] = id[x]
      BY <1>2, <1>4, <2>2, <2>3, <3>2, OthersIDs
    <3> QED
      BY <2>1, <3>1, <3>3 DEF Contiguous
  <2> QED
    BY <2>1, <2>4, <2>5
<1>6. CASE b = c
  <2>1. keys'[b] = Append(left[b], k) /\ left[b] \in Seq(Key)
    BY <1>1, <1>2, <1>3, <1>6
  <2> QED
    BY <1>2, <1>4, <1>5, <1>6, <2>1, AppendedIDs
<1>7. CASE b # c
  <2>1. keys'[b] = left[b]
    BY <1>1, <1>2, <1>3, <1>7
  <2> QED
    BY <1>5, <2>1 DEF Contiguous
<1> QED
  BY <1>6, <1>7

\* ChangeLocation: the keys of a type line up behind those of the destination.
LEMMA ChangeLocationIDs ==
  ASSUME FewKeys, IInv, [Next]_vars, NEW l \in Locs, NEW m \in Locs, ChangeLocation(l, m),
         NEW b \in Buckets, Contiguous(b)
  PROVE  Contiguous(b)'
<1> DEFINE moved(x) == \E t \in Types : x \in Range(keys[<<l, t>>])
<1>1. /\ l # m
      /\ keys'[b] = CASE b[1] = l -> <<>>
                      [] b[1] = m -> keys[b] \o keys[<<l, b[2]>>]
                      [] OTHER -> keys[b]
      /\ \A x \in Key : id'[x] = IF moved(x)
                          THEN (Len(keys[<<m, uoid[x].type>>])
                                 + Position(keys[Home(x)], x)) % IDMod
                          ELSE id[x]
  BY DEF ChangeLocation
<1>2. b = <<b[1], b[2]>> /\ b[2] \in Types /\ <<l, b[2]>> \in Buckets
      /\ keys[b] \in Seq(Key) /\ keys[<<l, b[2]>>] \in Seq(Key)
  BY DEF Buckets, IInv, TypeOK
<1>3. ASSUME NEW x \in Key, moved(x) PROVE uoid[x].loc = l
  <2>1. PICK t \in Types : x \in Range(keys[<<l, t>>])
    BY <1>3
  <2>2. <<uoid[x].loc, uoid[x].type>> = <<l, t>>
    BY <2>1 DEF IInv, Placed, PlacedIn, Buckets
  <2> QED
    BY <2>2
<1>4. ASSUME NEW x \in Key, Home(x) = b, b[1] # l PROVE id'[x] = id[x]
  <2>1. ~moved(x)
    BY <1>2, <1>3, <1>4 DEF Home
  <2> QED
    BY <1>1, <2>1
<1>5. CASE b[1] = l
  BY <1>1, <1>5 DEF Contiguous
<1>6. CASE b[1] # l /\ b[1] # m
  BY <1>1, <1>4, <1>6, UntouchedBucket
<1>7. CASE b[1] = m
  <2>1. PICK s \in Seq(Key), r \in Seq(Key) : s = keys[b] /\ r = keys[<<l, b[2]>>]
    BY <1>2
  <2>2. keys'[b] = s \o r
    BY <1>1, <1>7, <2>1
  <2>3. IsInjective(s) /\ IsInjective(r) /\ IsInjective(s \o r)
    <3>1. IInv'
      BY NextInv
    <3> QED
      BY <1>2, <2>1, <2>2, <3>1 DEF IInv, Placed, PlacedIn
  <2>4. /\ s \o r \in Seq(Key) /\ Len(s) \in Nat /\ Len(r) \in Nat
        /\ Len(s \o r) = Len(s) + Len(r)
        /\ \A i \in 1..Len(s) : (s \o r)[i] = s[i] /\ s[i] \in Key /\ s[i] \in Range(s)
        /\ \A i \in 1..Len(r) : (s \o r)[Len(s) + i] = r[i] /\ r[i] \in Key /\ r[i] \in Range(r)
    BY ConcatProperties DEF Range
  <2>5. ASSUME NEW i \in 1..Len(s) PROVE id'[(s \o r)[i]] = i
    <3>1. Home(s[i]) = b
      BY <2>1, <2>4 DEF IInv, Placed, PlacedIn, Home
    <3>2. id'[s[i]] = id[s[i]]
      BY <1>1, <1>4, <1>7, <2>4, <3>1
    <3>3. id[s[i]] = i
      <4>1. i \in DOMAIN keys[b]
        BY <2>1, <2>4
      <4> QED
        BY <2>1, <4>1 DEF Contiguous
    <3> QED
      BY <2>4, <3>2, <3>3
  <2>6. ASSUME NEW i \in 1..Len(r) PROVE id'[(s \o r)[Len(s) + i]] = Len(s) + i
    <3>1. Home(r[i]) = <<l, b[2]>> /\ moved(r[i])
      BY <1>2, <2>1, <2>4 DEF IInv, Placed, PlacedIn, Home
    <3>2. uoid[r[i]].type = b[2] /\ keys[<<m, b[2]>>] = s /\ keys[Home(r[i])] = r
      BY <1>2, <1>7, <2>1, <3>1 DEF Home
    <3> HIDE DEF moved
    <3>3. id'[r[i]] = (Len(s) + Position(r, r[i])) % IDMod
      BY <1>1, <2>4, <3>1, <3>2
    <3>4. Position(r, r[i]) = i
      BY <2>3, PositionOf
    <3>5. (Len(s) + i) % IDMod = Len(s) + i
      <4>1. Len(s) + i \in 1..Len(s \o r)
        BY <2>4
      <4> QED
        BY <2>3, <2>4, <4>1, PositionIsID
    <3> QED
      BY <2>4, <3>3, <3>4, <3>5
  <2>7. ASSUME NEW j \in DOMAIN (s \o r) PROVE id'[(s \o r)[j]] = j
    <3>1. j \in 1..Len(s) + Len(r)
      BY <2>4
    <3>2. CASE j \in 1..Len(s)
      BY <2>5, <3>2
    <3>3. CASE j \notin 1..Len(s)
      <4>1. PICK i \in 1..Len(r) : j = Len(s) + i
        <5>1. j - Len(s) \in 1..Len(r) /\ j = Len(s) + (j - Len(s))
          BY <2>4, <3>1, <3>3
        <5> QED
          BY <5>1
      <4> QED
        BY <2>6, <4>1
    <3> QED
      BY <3>2, <3>3
  <2> QED
    BY <2>2, <2>7 DEF Contiguous
<1> QED
  BY <1>5, <1>6, <1>7

\* No call leaves a gap or a duplicate in a bucket that had none.
LEMMA EditStep ==
  ASSUME FewKeys, ~PreserveIDs, StreamIDs = {0}, IInv, Blank, [Next]_vars,
         pc = "idle", NEW b \in Buckets, Contiguous(b)
  PROVE  Contiguous(b)'
<1>0. /\ IInv' /\ RegisteredLives'
      /\ id \in [Key -> IDs] /\ uoid \in [Key -> Uoids]
  <2>1. IInv' /\ (IInv' => RegisteredLives')
    BY NextInv, RegisteredIsLive, PTL
  <2> QED
    BY <2>1 DEF IInv, TypeOK, Uoids, IDs
<1>1. ASSUME keys' = keys, id' = id PROVE Contiguous(b)'
  BY <1>1 DEF Contiguous
<1>2. ASSUME keys'[b] = keys[b], NEW uo, NEW rc, Settle(uo, id, rc) PROVE Contiguous(b)'
  <2>1. ASSUME NEW x \in Key, Registered(x), Home(x) = b PROVE id'[x] = id[x]
    <3>1. Registered(x)'
      BY <1>2, <2>1, RegisteredAtHome DEF IInv, Registered
    <3> QED
      BY <1>0, <1>2, <3>1, SettledID
  <2> QED
    BY <1>2, <2>1, UntouchedBucket
<1>3. ASSUME NEW h \in Holders, NEW u \in Uoid, NEW i \in StreamIDs,
             ReadKnownKey(h, u, i) \/ ReadNewKey(h, u, i)
      PROVE  Contiguous(b)'
  <2>1. CASE ReadKnownKey(h, u, i)
    BY <1>1, <2>1 DEF ReadKnownKey, KnownKey, registry
  <2>2. CASE ReadNewKey(h, u, i)
    <3>1. PICK k \in Key : /\ ~Allocated(k) /\ keys' = AddedKeys(k, u)
                           /\ id' = [id EXCEPT ![k] = AddedID(u, 0)]
      BY <2>2 DEF ReadNewKey
    <3>2. ~Registered(k)
      <4>1. refCnt[k] = 0
        BY <3>1 DEF Allocated, IInv, TypeOK
      <4> QED
        BY <4>1, FreeHasNoOwner DEF IInv
    <3> QED
      BY <1>0, <3>1, <3>2, AddedIDs, UoidBucket
  <2> QED
    BY <1>3, <2>1, <2>2
<1>4. ASSUME NEW k \in Key, NEW t, NEW n,
             InitObject(k, t, n) \/ SetName(k, n) \/ AcquireHandle(k) \/ LoadObject(k)
      PROVE  Contiguous(b)'
  BY <1>1, <1>4 DEF InitObject, SetName, AcquireHandle, LoadObject, registry
<1>5. ASSUME NEW k \in Key, ReleaseHandle(k) PROVE Contiguous(b)'
  BY <1>2, <1>5 DEF ReleaseHandle, registry
<1>6. ASSUME NEW k \in Key, NEW l \in Locs, AddObject(l, k) PROVE Contiguous(b)'
  <2> DEFINE u == [uoid[k] EXCEPT !.loc = l]
  <2>1. /\ uoid[k].loc = NoLoc
        /\ \/ keys' = keys /\ id' = id
           \/ keys' = AddedKeys(k, u) /\ id' = [id EXCEPT ![k] = AddedID(u, @)]
    BY <1>6 DEF AddObject, registry
  <2>2. ~Registered(k) /\ id[k] = 0
    BY <2>1, RegisteredHasLoc DEF IInv, Locs, NoLoc, Blank
  <2>3. <<u.loc, u.type>> \in Buckets
    BY <1>0 DEF Uoids, Buckets
  <2> HIDE DEF u
  <2>4. CASE keys' = AddedKeys(k, u) /\ id' = [id EXCEPT ![k] = AddedID(u, @)]
    <3>1. id' = [id EXCEPT ![k] = AddedID(u, 0)]
      BY <1>0, <2>2, <2>4
    <3> QED
      BY <1>0, <2>2, <2>3, <2>4, <3>1, AddedIDs
  <2> QED
    BY <1>1, <2>1, <2>4
<1>7. ASSUME NEW l \in Locs, ChangeLocationFlags(l) PROVE Contiguous(b)'
  <2>1. /\ keys'[b] = IF b[1] = l THEN <<>> ELSE keys[b]
        /\ \E rc : Settle(uoid, id, rc)
    BY <1>7 DEF ChangeLocationFlags
  <2>2. CASE b[1] = l
    BY <2>1, <2>2 DEF Contiguous
  <2> QED
    BY <1>2, <2>1, <2>2
<1>8. ASSUME NEW l \in Locs, OptimizeKeys(l) PROVE Contiguous(b)'
  <2>1. PICK new : Reordered(l, new) /\ uoid' = uoid
    BY <1>8 DEF OptimizeKeys
  <2>2. CASE b[1] = l
    BY <1>0, <2>1, <2>2, ReorderedIDs
  <2>3. CASE b[1] # l
    <3>1. keys'[b] = keys[b]
      BY <2>1, <2>3 DEF Reordered
    <3>2. ASSUME NEW x \in Key, Home(x) = b PROVE id'[x] = id[x]
      BY <2>1, <2>3, <3>2 DEF Reordered, Home
    <3> QED
      BY <3>1, <3>2, UntouchedBucket
  <2> QED
    BY <2>2, <2>3
<1>9. ASSUME NEW l \in Locs, DelAll(l) \/ ReadKeyring(l) PROVE Contiguous(b)'
  BY <1>1, <1>9 DEF DelAll, ReadKeyring, registry, data
<1>10. \A n, i : ~KeyringEntry(n, i)
  BY DEF KeyringEntry
<1>11. CASE Call
  BY <1>11, <1>3, <1>4, <1>5, <1>6, <1>7, <1>8, <1>9, <1>10,
     DelKeyIDs, MoveKeyIDs, ChangeLocationIDs DEF Call
<1>12. ~Loop
  BY DEF Loop, DelAllKey, DelAllNext, CleanupKey, CleanupNext,
         KeyringFlags, KeyringThrows, KeyringSort
<1>13. CASE UNCHANGED vars
  BY <1>1, <1>13 DEF vars
<1> QED
  BY <1>11, <1>12, <1>13 DEF Next

\* A bucket whose IDs are the positions of its keys stays one through every add,
\* del, move, relocation and optimisation, as long as no stream brings IDs of
\* its own and there are fewer keys than object IDs.
THEOREM EditsRenumber == ASSUME FewKeys, ~PreserveIDs PROVE Spec => EditsKeepIDs
<1>1. Init => Blank
  BY DEF Init, Blank, NoUoid
<1>2. IInv /\ Blank /\ [Next]_vars => Blank'
  BY BlankStep
<1>3. IInv /\ Blank /\ [Next]_vars
        => [(StreamIDs = {0} /\ pc = "idle") =>
              \A b \in Buckets : Contiguous(b) => Contiguous(b)']_vars
  BY EditStep
<1> QED
  BY <1>1, <1>2, <1>3, Invariance, PTL DEF Spec, EditsKeepIDs
=============================================================================
