---------------------------- MODULE KeyCollector ----------------------------
(***************************************************************************)
(* The key registry of HSPlasma: plKey / plKeyData (core/PRP/KeyedObject)  *)
(* and plKeyCollector (core/ResManager), with the plResManager entry       *)
(* points that lead to it (readUoid, AddKey, AddObject, DelObject,         *)
(* MoveKey, ChangeLocation, optimizeKeys).                                 *)
(*                                                                         *)
(* A plKeyData is a slot of Key.  It is on the heap while its reference    *)
(* count is not 0.  The object of a key k is identified with k: it exists  *)
(* while k \in loaded, and then holds its own key (myKey) and the keys in  *)
(* refs[k].  refs[App] are the plKey handles of the application.           *)
(*                                                                         *)
(* delAll and cleanupKeys are loops with an iterator; each iteration is an *)
(* action and cur is the iterator.  Everything else is one action per call,*)
(* enabled only between calls (pc = "idle"): the library is single         *)
(* threaded here.                                                          *)
(***************************************************************************)
EXTENDS Naturals, FiniteSets, SequencesExt

CONSTANTS
  Key,          \* plKeyData slots
  App,          \* the application as a holder of plKey handles
  NLocs,        \* valid locations are 1..NLocs, in plLocation::operator< order
  NTypes,       \* class types are 1..NTypes (TYPESPACE_MAX)
  Names,        \* object names, numbered in compare_i order
  StreamIDs,    \* the objIDs found in streams; 0 when the version has none
  IDMod,        \* object IDs are modulo IDMod (2^32)
  MaxRef,       \* BOUND on reference counts
  MaxHeld,      \* BOUND on the plKeys of all holders together
  PreserveIDs   \* plResManager::preserveIDs

ASSUME KeyAssumption == App \notin Key /\ IsFiniteSet(Key)
ASSUME LocAssumption == NLocs \in Nat \ {0} /\ NTypes \in Nat \ {0}
ASSUME IDAssumption ==
  /\ IDMod \in Nat \ {0} /\ StreamIDs \subseteq 0..IDMod-1
  /\ Names \subseteq Nat \ {0}
  /\ MaxRef \in Nat /\ MaxHeld \in Nat /\ PreserveIDs \in BOOLEAN

NoLoc == 0                        \* the invalid location of a key from init()
Locs  == 1..NLocs
Types == 1..NTypes
Uoid  == [loc : Locs, type : Types, name : Names]
NoUoid == [loc |-> NoLoc, type |-> 1, name |-> 0]
Buckets == (Locs \cup {NoLoc}) \X Types
Holders == Key \cup {App}

VARIABLES
  keys,     \* keymap_t: bucket <<loc, type>> -> sequence of keys
  notOpt,   \* the buckets whose kNotOptimized flag is set
  uoid,     \* fUoid without the ID
  id,       \* fUoid.objID
  refCnt,   \* fRefCnt; 0: the slot is not allocated
  loaded,   \* the keys whose fObjPtr is not null
  refs,     \* the keys held by each holder
  pc,       \* "idle", or the loop that is running
  cur       \* its iterator: location, type, position

registry == <<keys, notOpt>>
data     == <<uoid, id, refCnt>>
vars     == <<keys, notOpt, uoid, id, refCnt, loaded, refs, pc, cur>>

TypeOK ==
  /\ keys \in [Buckets -> Seq(Key)]
  /\ notOpt \in SUBSET Buckets
  /\ uoid \in [Key -> [loc : Locs \cup {NoLoc}, type : Types, name : Names \cup {0}]]
  /\ id \in [Key -> 0..IDMod-1]
  /\ refCnt \in [Key -> Nat]
  /\ loaded \in SUBSET Key
  /\ refs \in [Holders -> SUBSET Key]
  /\ pc \in {"idle", "delAll", "cleanup", "keyring", "sort"}
  /\ cur \in [loc : Locs \cup {NoLoc}, type : Types, idx : Nat \ {0}]

-----------------------------------------------------------------------------
(* Lookup.                                                                 *)

Home(k) == <<uoid[k].loc, uoid[k].type>>
Registered(k) == \E b \in Buckets : k \in Range(keys[b])
Allocated(k) == refCnt[k] > 0

\* What a caller can name: a registered key (getKeys), the key of an object
\* (getKey), a handle.
Reachable(k) ==
  Registered(k) \/ k \in loaded \/ \E h \in Holders : k \in refs[h]

\* Mutant: the search stops one short of the end.
MatchesButLast(u) ==
  LET s == keys[<<u.loc, u.type>>] IN {i \in 1..Len(s) - 1 : uoid[s[i]] = u}

\* The keys of u's bucket that findKey compares equal to u, as positions.
Matches(u) ==
  LET s == keys[<<u.loc, u.type>>] IN {i \in DOMAIN s : uoid[s[i]] = u}

\* findKey: the first match.
FindKey(u) == keys[<<u.loc, u.type>>][Min(Matches(u))]

\* BOUND on what the application and its objects take up.
Held == {p \in Holders \X Key : p[2] \in refs[p[1]]}
MayHold == Cardinality(Held) < MaxHeld

-----------------------------------------------------------------------------
(* Reference counts.                                                       *)

Count(b) == IF b THEN 1 ELSE 0

\* Mutant: the object's own key is released twice.
DroppedTwice(d, k) == 2 * Count(k = d) + Count(k \in refs[d])

\* The references that `delete fObjPtr` of d's object gives back on k.
Dropped(d, k) == Count(k = d) + Count(k \in refs[d])

\* deleteObj (nothing if fObjPtr is null) destroys the object and its plKeys.
DeleteObjDrop(d, k) == IF d \in loaded THEN Dropped(d, k) ELSE 0
DeleteObj(d) ==
  /\ loaded' = loaded \ {d}
  /\ refs' = IF d \in loaded THEN [refs EXCEPT ![d] = {}] ELSE refs

\* UnRef: a datum whose count reaches 0 is deleted.
Settle(uo, ids, rc) ==
  /\ refCnt' = rc
  /\ uoid' = [k \in Key |-> IF rc[k] = 0 THEN NoUoid ELSE uo[k]]
  /\ id' = [k \in Key |-> IF rc[k] = 0 THEN 0 ELSE ids[k]]

\* std::vector<plKey>::erase moves the later elements down with plKey's move
\* assignment, which overwrites the target without UnRef: only the last
\* element of the vector gives its reference back.
EraseDrop(s, i) == Count(i = Len(s))

-----------------------------------------------------------------------------
Init ==
  /\ keys = [b \in Buckets |-> <<>>]
  /\ notOpt = {}
  /\ uoid = [k \in Key |-> NoUoid]
  /\ id = [k \in Key |-> 0]
  /\ refCnt = [k \in Key |-> 0]
  /\ loaded = {}
  /\ refs = [h \in Holders |-> {}]
  /\ pc = "idle"
  /\ cur = [loc |-> NoLoc, type |-> 1, idx |-> 1]

Idle == pc = "idle" /\ UNCHANGED <<pc, cur>>

\* plKeyCollector::add of key k with uoid u and ID i.
AddedKeys(k, u) == [keys EXCEPT ![<<u.loc, u.type>>] = Append(@, k)]
AddedID(u, i) == IF i = 0 THEN (Len(keys[<<u.loc, u.type>>]) + 1) % IDMod ELSE i

\* plResManager::AddKey for holder h (an object being read, or the
\* application) of a key with uoid u that is registered: h gets that key.
KnownKey(h, u) ==
  /\ Idle
  /\ h = App \/ h \in loaded
  /\ Matches(u) # {}
  /\ LET x == FindKey(u) IN
       /\ x \notin refs[h] /\ refCnt[x] < MaxRef
       /\ refs' = [refs EXCEPT ![h] = @ \cup {x}]
       /\ refCnt' = [refCnt EXCEPT ![x] = @ + 1]
  /\ UNCHANGED <<registry, uoid, loaded>>

\* plResManager::readUoid of a valid uoid u with objID i.
ReadKnownKey(h, u, i) ==
  /\ KnownKey(h, u)
  /\ id' = IF PreserveIDs THEN [id EXCEPT ![FindKey(u)] = i] ELSE id

\* prcParseKey: the ID in the file is not looked at.
ParseKnownKey(h, u) == KnownKey(h, u) /\ UNCHANGED id

\* readUoid for a uoid that nobody has registered: the new key is.  Its ID is
\* add's with PreserveIDs too, since the key that AddKey returns is this one.
ReadNewKey(h, u, i) ==
  /\ Idle
  /\ h = App \/ h \in loaded
  /\ Matches(u) = {}
  /\ \E k \in Key :
       /\ ~Allocated(k)
       /\ keys' = AddedKeys(k, u)
       /\ notOpt' = notOpt \cup {<<u.loc, u.type>>}
       /\ uoid' = [uoid EXCEPT ![k] = u]
       /\ id' = [id EXCEPT ![k] = AddedID(u, i)]
       /\ refCnt' = [refCnt EXCEPT ![k] = 2]
       /\ refs' = [refs EXCEPT ![h] = @ \cup {k}]
  /\ UNCHANGED loaded

\* The application keeps a plKey it can name, or lets one go out of scope.
AcquireHandle(k) ==
  /\ Idle
  /\ Reachable(k) /\ k \notin refs[App] /\ refCnt[k] < MaxRef /\ MayHold
  /\ refs' = [refs EXCEPT ![App] = @ \cup {k}]
  /\ refCnt' = [refCnt EXCEPT ![k] = @ + 1]
  /\ UNCHANGED <<registry, uoid, id, loaded>>

ReleaseHandle(k) ==
  /\ Idle
  /\ k \in refs[App]
  /\ refs' = [refs EXCEPT ![App] = @ \ {k}]
  /\ Settle(uoid, id, [refCnt EXCEPT ![k] = @ - 1])
  /\ UNCHANGED <<registry, loaded>>

\* hsKeyedObject::init: a new object with a new key, not yet in any page.
InitObject(k, t, n) ==
  /\ Idle
  /\ ~Allocated(k)
  /\ uoid' = [uoid EXCEPT ![k] = [loc |-> NoLoc, type |-> t, name |-> n]]
  /\ refCnt' = [refCnt EXCEPT ![k] = 1]
  /\ loaded' = loaded \cup {k}
  /\ UNCHANGED <<registry, id, refs>>

\* setName: "This can be done at any time."  Neither the bucket nor its flag
\* hears of it.
SetName(k, n) ==
  /\ Idle
  /\ Reachable(k) /\ n # uoid[k].name
  /\ uoid' = [uoid EXCEPT ![k].name = n]
  /\ UNCHANGED <<registry, id, refCnt, loaded, refs>>

\* plResManager::AddObject of a new object: setLocation, then AddKey, which
\* leaves the object's key out if another key has its uoid.
AddObject(l, k) ==
  LET u == [uoid[k] EXCEPT !.loc = l] IN
  /\ Idle
  /\ k \in loaded /\ uoid[k].loc = NoLoc /\ refCnt[k] < MaxRef
  /\ uoid' = [uoid EXCEPT ![k] = u]
  /\ \/ Matches(u) # {} /\ UNCHANGED <<registry, id, refCnt>>
     \/ /\ Matches(u) = {}
        /\ keys' = AddedKeys(k, u)
        /\ notOpt' = notOpt \cup {<<l, u.type>>}
        /\ id' = [id EXCEPT ![k] = AddedID(u, @)]
        /\ refCnt' = [refCnt EXCEPT ![k] = @ + 1]
  /\ UNCHANGED <<loaded, refs>>

\* ReadObjects creates the object of a registered key: hsKeyedObject::read
\* gives it its key and setObj links the key to it.
LoadObject(k) ==
  /\ Idle
  /\ Registered(k) /\ k \notin loaded /\ refCnt[k] < MaxRef
  /\ loaded' = loaded \cup {k}
  /\ refCnt' = [refCnt EXCEPT ![k] = @ + 1]
  /\ UNCHANGED <<registry, uoid, id, refs>>

-----------------------------------------------------------------------------
(* Removal.                                                                *)

Position(s, k) == CHOOSE i \in DOMAIN s : s[i] = k

\* Mutant: the key is copied instead of moved.
WithoutNothing(s, k) == s

\* The loop of del and MoveKey over bucket s.  A bucket holds a key at most
\* once (RegisteredOnce), so it erases at most one element.
Without(s, k) == IF k \in Range(s) THEN RemoveAt(s, Position(s, k)) ELSE s

\* Mutant: the decrement starts one key too late.
RenumberedLate(s, k) ==
  [x \in Key |-> IF k \in Range(s) /\ x \in Range(SubSeq(s, Position(s, k) + 2, Len(s)))
                 THEN (id[x] + IDMod - 1) % IDMod ELSE id[x]]

\* Mutant: an ID 0 is decremented to -1.
RenumberedSigned(s, k) ==
  [x \in Key |-> IF k \in Range(s) /\ x \in Range(SubSeq(s, Position(s, k) + 1, Len(s)))
                 THEN id[x] - 1 ELSE id[x]]

\* The keys behind the erased one lose one from their ID, a uint32_t.
Renumbered(s, k) ==
  [x \in Key |-> IF k \in Range(s) /\ x \in Range(SubSeq(s, Position(s, k) + 1, Len(s)))
                 THEN (id[x] + IDMod - 1) % IDMod ELSE id[x]]

\* What the loop gives back of k's count.
WithoutDrop(s, k) == Count(k \in Range(s) /\ EraseDrop(s, Position(s, k)) = 1)

\* plKeyCollector::del, of a registered key or not; it erases the map entry
\* of the type, with its flags, if it is empty.
DelKey(k) ==
  LET h == Home(k)
      rest == Without(keys[h], k)
  IN /\ Idle
     /\ Reachable(k)
     /\ keys' = [keys EXCEPT ![h] = rest]
     /\ notOpt' = IF rest = <<>> THEN notOpt \ {h} ELSE notOpt
     /\ Settle(uoid, Renumbered(keys[h], k),
               [x \in Key |-> refCnt[x] - DeleteObjDrop(k, x)
                              - IF x = k THEN WithoutDrop(keys[h], k) ELSE 0])
     /\ DeleteObj(k)

\* plKeyCollector::MoveKey: out of its bucket if it is in it, and to the end
\* of to's.  Nothing looks for a key with the same uoid there.
MoveKey(k, to) ==
  LET h == Home(k)
      b == <<to, uoid[k].type>>
      rest == Without(keys[h], k)
      left == [keys EXCEPT ![h] = rest]
  IN /\ Idle
     /\ Reachable(k) /\ refCnt[k] < MaxRef
     /\ keys' = [left EXCEPT ![b] = Append(@, k)]
     /\ notOpt' = (IF rest = <<>> THEN notOpt \ {h} ELSE notOpt) \cup {b}
     /\ uoid' = [uoid EXCEPT ![k].loc = to]
     /\ id' = [Renumbered(keys[h], k) EXCEPT ![k] = (Len(left[b]) + 1) % IDMod]
     /\ refCnt' = [refCnt EXCEPT ![k] = @ + 1 - WithoutDrop(keys[h], k)]
     /\ UNCHANGED <<loaded, refs>>

\* plKeyCollector::ChangeLocation between two locations: the keys of every
\* type are appended to the destination, renumbered from its old size.
ChangeLocation(from, to) ==
  LET moved(k) == \E t \in Types : k \in Range(keys[<<from, t>>])
      pos(k) == Position(keys[Home(k)], k)
  IN /\ Idle
     /\ from # to
     /\ keys' = [b \in Buckets |->
                   CASE b[1] = from -> <<>>
                     [] b[1] = to -> keys[b] \o keys[<<from, b[2]>>]
                     [] OTHER -> keys[b]]
     /\ notOpt' = {b \in notOpt : b[1] # from} \cup {<<to, t>> : t \in Types}
     /\ uoid' = [k \in Key |-> IF moved(k) THEN [uoid[k] EXCEPT !.loc = to]
                               ELSE uoid[k]]
     /\ id' = [k \in Key |-> IF moved(k)
                 THEN (Len(keys[<<to, uoid[k].type>>]) + pos(k)) % IDMod
                 ELSE id[k]]
     /\ UNCHANGED <<refCnt, loaded, refs>>

\* ChangeLocation between two locations that differ in their flags only: they
\* are equal (operator==), setLocation changes the flags, and then the map
\* entry is erased like any other.  Erasing a map entry destroys its vectors,
\* so here the references are given back.
ChangeLocationFlags(l) ==
  LET here(k) == \E t \in Types : k \in Range(keys[<<l, t>>]) IN
  /\ Idle
  /\ keys' = [b \in Buckets |-> IF b[1] = l THEN <<>> ELSE keys[b]]
  /\ notOpt' = {b \in notOpt : b[1] # l}
  /\ Settle(uoid, id, [k \in Key |-> refCnt[k] - Count(here(k))])
  /\ UNCHANGED <<loaded, refs>>

-----------------------------------------------------------------------------
(* Order.                                                                  *)

\* The orders std::sort may leave s in: it is not stable.  leq relates keys.
Sortings(s, leq) ==
  {[i \in DOMAIN s |-> s[p[i]]] :
     p \in {q \in Bijection(DOMAIN s, DOMAIN s) :
              \A i, j \in DOMAIN s : i < j => <<s[q[i]], s[q[j]]>> \in leq}}

LeqID == {p \in Key \X Key : id[p[1]] <= id[p[2]]}
LeqName == {p \in Key \X Key : uoid[p[1]].name <= uoid[p[2]].name}

\* Mutant: numbered from 0.
ReorderedFromZero(l, new) ==
  /\ keys' = [b \in Buckets |-> IF b[1] = l THEN new[b[2]] ELSE keys[b]]
  /\ id' = [k \in Key |->
              IF uoid[k].loc = l /\ k \in Range(new[uoid[k].type])
              THEN Position(new[uoid[k].type], k) - 1 ELSE id[k]]

\* The bucket of type t at l becomes new[t], numbered 1, 2, ...
Reordered(l, new) ==
  /\ keys' = [b \in Buckets |-> IF b[1] = l THEN new[b[2]] ELSE keys[b]]
  /\ id' = [k \in Key |->
              IF uoid[k].loc = l /\ k \in Range(new[uoid[k].type])
              THEN Position(new[uoid[k].type], k) % IDMod ELSE id[k]]

Rearrangements(l, leq) ==
  {new \in [Types -> UNION {Sortings(keys[<<l, t>>], leq) : t \in Types}] :
     \A t \in Types : new[t] \in Sortings(keys[<<l, t>>], leq)}

\* Mutant: the page's flags are believed.
NoneMisordered(l, new) == {}

\* The buckets that sortKeys finds not to be in the order of their names.
Misordered(l, new) ==
  {<<l, t>> : t \in {u \in Types : \E i \in 1..Len(new[u]) - 1 :
                       ~(uoid[new[u][i]].name < uoid[new[u][i + 1]].name)}}

\* sortKeys: by ID.  A bucket that claims to be sorted by name and is not
\* gets its flag back.
SortKeys(l) ==
  \E new \in Rearrangements(l, LeqID) :
    /\ Reordered(l, new)
    /\ notOpt' = notOpt \cup Misordered(l, new)

\* optimizeKeys: by name, and the flag is cleared, for the types that have keys.
OptimizeKeys(l) ==
  /\ Idle
  /\ \E new \in Rearrangements(l, LeqName) : Reordered(l, new)
  /\ notOpt' = {b \in notOpt : b[1] # l \/ keys[b] = <<>>}
  /\ UNCHANGED <<uoid, refCnt, loaded, refs>>

-----------------------------------------------------------------------------
(* delAll and cleanupKeys.                                                 *)

Bucket == keys[<<cur.loc, cur.type>>]
Here   == Bucket[cur.idx]

\* Mutant: the iterator skips the element that moved into its place.
AfterEraseSkipping == [cur EXCEPT !.idx = @ + 1]

\* erase returns the iterator of the element that follows.
AfterErase == cur

\* One `key_iter = erase(key_iter)` after deleteObj on the key at the iterator.
EraseHere ==
  LET k == Here IN
  /\ keys' = [keys EXCEPT ![<<cur.loc, cur.type>>] = RemoveAt(@, cur.idx)]
  /\ Settle(uoid, id, [x \in Key |-> refCnt[x] - DeleteObjDrop(k, x)
                         - IF x = k THEN EraseDrop(Bucket, cur.idx) ELSE 0])
  /\ DeleteObj(k)
  /\ cur' = AfterErase
  /\ UNCHANGED <<notOpt, pc>>

\* Mutant: ++key_iter is forgotten.
AdvanceNowhere == UNCHANGED vars

Advance ==
  /\ cur' = [cur EXCEPT !.idx = @ + 1]
  /\ UNCHANGED <<registry, data, loaded, refs, pc>>

\* delAll(l): the loaded keys of l, then cleanupKeys over everything.
DelAll(l) ==
  /\ pc = "idle"
  /\ pc' = "delAll"
  /\ cur' = [loc |-> l, type |-> 1, idx |-> 1]
  /\ UNCHANGED <<registry, data, loaded, refs>>

DelAllKey ==
  /\ pc = "delAll" /\ cur.idx <= Len(Bucket)
  /\ IF Here \in loaded THEN EraseHere ELSE Advance

DelAllNext ==
  /\ pc = "delAll" /\ cur.idx > Len(Bucket)
  /\ \/ /\ cur.type < NTypes
        /\ cur' = [loc |-> cur.loc, type |-> cur.type + 1, idx |-> 1]
        /\ pc' = pc
     \/ /\ cur.type = NTypes
        /\ cur' = [loc |-> NoLoc, type |-> 1, idx |-> 1]
        /\ pc' = "cleanup"
  /\ UNCHANGED <<registry, data, loaded, refs>>

\* Mutant: one owner too many is tolerated.
OnlyTwoOwners(k) == refCnt[k] <= 2

\* "We are the only remaining owner of this key.  Nuke it."
OnlyOwner(k) == refCnt[k] = IF k \in loaded THEN 2 ELSE 1

CleanupKey ==
  /\ pc = "cleanup" /\ cur.idx <= Len(Bucket)
  /\ IF OnlyOwner(Here) THEN EraseHere ELSE Advance

\* The next type, then the next location; an empty type entry is erased and
\* its flags with it.
CleanupNext ==
  /\ pc = "cleanup" /\ cur.idx > Len(Bucket)
  /\ notOpt' = IF Bucket = <<>> THEN notOpt \ {<<cur.loc, cur.type>>} ELSE notOpt
  /\ \/ /\ cur.type < NTypes
        /\ cur' = [loc |-> cur.loc, type |-> cur.type + 1, idx |-> 1]
        /\ pc' = pc
     \/ /\ cur.type = NTypes /\ cur.loc < NLocs
        /\ cur' = [loc |-> cur.loc + 1, type |-> 1, idx |-> 1]
        /\ pc' = pc
     \/ /\ cur.type = NTypes /\ cur.loc = NLocs
        /\ cur' = [loc |-> NoLoc, type |-> 1, idx |-> 1]
        /\ pc' = "idle"
  /\ UNCHANGED <<keys, data, loaded, refs>>

-----------------------------------------------------------------------------
(* plResManager::ReadKeyring: for each type of the page its keys and then   *)
(* its flags, and sortKeys at the end.                                     *)

ReadKeyring(l) ==
  /\ pc = "idle"
  /\ pc' = "keyring"
  /\ cur' = [loc |-> l, type |-> 1, idx |-> 1]
  /\ UNCHANGED <<registry, data, loaded, refs>>

\* A key of the index: known already, or added with the ID of the file.
KeyringEntry(n, i) ==
  LET u == [loc |-> cur.loc, type |-> cur.type, name |-> n] IN
  /\ pc = "keyring"
  /\ Matches(u) = {}
  /\ \E k \in Key :
       /\ ~Allocated(k)
       /\ keys' = AddedKeys(k, u)
       /\ notOpt' = notOpt \cup {<<u.loc, u.type>>}
       /\ uoid' = [uoid EXCEPT ![k] = u]
       /\ id' = [id EXCEPT ![k] = AddedID(u, i)]
       /\ refCnt' = [refCnt EXCEPT ![k] = 1]
  /\ UNCHANGED <<loaded, refs, pc, cur>>

\* "Override whatever the key collector thinks the flags should be with what
\* the PRP says."  A type the page does not list keeps its flags.
KeyringFlags(listed, opt) ==
  /\ pc = "keyring"
  /\ notOpt' = IF ~listed THEN notOpt
               ELSE IF opt THEN notOpt \ {<<cur.loc, cur.type>>}
               ELSE notOpt \cup {<<cur.loc, cur.type>>}
  /\ \/ cur.type < NTypes /\ cur' = [cur EXCEPT !.type = @ + 1] /\ pc' = pc
     \/ cur.type = NTypes /\ pc' = "sort" /\ cur' = cur
  /\ UNCHANGED <<keys, data, loaded, refs>>

\* The file ends before the index does: the exception leaves the keys and the
\* flags that have been read, and nothing sorts them.
KeyringThrows ==
  /\ pc = "keyring"
  /\ pc' = "idle"
  /\ cur' = [loc |-> NoLoc, type |-> 1, idx |-> 1]
  /\ UNCHANGED <<registry, data, loaded, refs>>

KeyringSort ==
  /\ pc = "sort"
  /\ IF PreserveIDs THEN UNCHANGED <<registry, id>> ELSE SortKeys(cur.loc)
  /\ pc' = "idle"
  /\ cur' = [loc |-> NoLoc, type |-> 1, idx |-> 1]
  /\ UNCHANGED <<uoid, refCnt, loaded, refs>>

-----------------------------------------------------------------------------
(* Specification.                                                          *)

\* The loops of the collector, driven to their end by the call that started
\* them.
Loop == \/ DelAllKey \/ DelAllNext \/ CleanupKey \/ CleanupNext
        \/ \E listed, opt \in BOOLEAN : KeyringFlags(listed, opt)
        \/ KeyringThrows \/ KeyringSort

Call ==
  \/ /\ MayHold
     /\ \E h \in Holders, u \in Uoid, i \in StreamIDs :
          ReadKnownKey(h, u, i) \/ ReadNewKey(h, u, i)
  \/ \E k \in Key, t \in Types, n \in Names : InitObject(k, t, n)
  \/ \E k \in Key, n \in Names : SetName(k, n)
  \/ \E k \in Key : \/ AcquireHandle(k) \/ ReleaseHandle(k) \/ LoadObject(k)
                    \/ DelKey(k)
  \/ \E k \in Key, l \in Locs : AddObject(l, k) \/ MoveKey(k, l)
  \/ \E l, m \in Locs : ChangeLocation(l, m)
  \/ \E l \in Locs : \/ ChangeLocationFlags(l) \/ OptimizeKeys(l)
                     \/ DelAll(l) \/ ReadKeyring(l)
  \/ \E n \in Names, i \in StreamIDs : KeyringEntry(n, i)

Next == Call \/ Loop

Spec == Init /\ [][Next]_vars

\* A call that has started runs to its end: each loop step is weakly fair.
FairSpec == Spec /\ WF_vars(Loop)

-----------------------------------------------------------------------------
(* Safety.                                                                 *)

\* Every registered key is in the bucket of its own location and type, and
\* nowhere twice: findKey, del and MoveKey look for a key only there.
RegisteredOnce ==
  \A b \in Buckets : \A i, j \in DOMAIN keys[b] :
    /\ Home(keys[b][i]) = b
    /\ keys[b][i] = keys[b][j] => i = j

\* The plKeys that hold k: in the registry, in its own object, in the holders.
Owners(k) ==
  Count(Registered(k)) + Count(k \in loaded)
    + Cardinality({h \in Holders : k \in refs[h]})

\* No plKeyData is deleted while a plKey still points to it, however the
\* vectors shift: the count never falls below the number of owners
\* (plKeyData::UnRef).
CountCoversOwners == \A k \in Key : Owners(k) <= refCnt[k]

\* When delAll goes on to cleanupKeys no loaded key is left where it worked.
\* (cleanup deletes objects but never creates one.)
DelAllUnloads ==
  [][(pc = "delAll" /\ pc' = "cleanup") =>
       \A k \in loaded : Registered(k) => uoid[k].loc # cur.loc]_vars

\* cleanupKeys drops a key only if the registry and its own object were the
\* only ones to hold it.
CleanupSparesOwned ==
  [][\A k \in Key :
       (pc = "cleanup" /\ Registered(k) /\ ~Registered(k)') =>
         {h \in Holders : k \in refs[h]} = {}]_vars

\* An ID is the position of its key in its bucket, as the page file wants it.
Contiguous(b) == \A i \in DOMAIN keys[b] : id[keys[b][i]] = i

\* No edit of a page (add, move, delete, relocate, optimise) leaves a gap or
\* a duplicate in the IDs of a bucket that had none.  Reading keys with IDs of
\* their own and the two clean-up loops do.
EditsKeepIDs ==
  [][(StreamIDs = {0} /\ pc = "idle") =>
       \A b \in Buckets : Contiguous(b) => Contiguous(b)']_vars

\* sortKeys: "renumbering any keys that have duplicated IDs and ensuring that
\* all key IDs are contiguous", whatever IDs the page and the references to
\* its keys came with.
KeyringLeavesContiguous ==
  [][\A l \in Locs :
       (pc = "sort" /\ pc' = "idle" /\ cur.loc = l /\ ~PreserveIDs) =>
         \A t \in Types : Contiguous(<<l, t>>)']_vars

\* A bucket tells the truth if it is flagged kNotOptimized or in the order of
\* its names, which is what the engines that look keys up by name rely on.
InNameOrder(b) ==
  \A i, j \in DOMAIN keys[b] :
    i < j => uoid[keys[b][i]].name <= uoid[keys[b][j]].name
Truthful(b) == b \in notOpt \/ InNameOrder(b)
Renaming == \E k \in Key, n \in Names : SetName(k, n)

\* No insertion, removal, relocation, sort or clean-up makes a bucket lie, and
\* sortKeys at the end of ReadKeyring makes every bucket of the page tell the
\* truth, whatever flags the file had.  The code makes buckets lie in two
\* places: setName, and ReadKeyring when it sets the flags of a type
\* (plResManager.cpp:506), which stay as they are if it throws before sortKeys.
FlagStaysTruthful ==
  [][~PreserveIDs /\ ~Renaming =>
       \A b \in Buckets :
         \/ Truthful(b)'
         \/ pc = "keyring" /\ b = <<cur.loc, cur.type>>
         \/ ~Truthful(b) /\ ~(pc = "sort" /\ b[1] = cur.loc)]_vars

\* Looking up before adding: no step but a relocation or setName gives two
\* registered keys the same uoid.
SameUoid == \E k, x \in Key : /\ k # x /\ uoid[k] = uoid[x]
                             /\ Registered(k) /\ Registered(x)
Relocation == \/ \E k \in Key, l \in Locs : MoveKey(k, l)
              \/ \E l, m \in Locs : ChangeLocation(l, m)
NoDuplicateAdded == [][~SameUoid /\ SameUoid' => Relocation \/ Renaming]_vars

\* The loops that erase while they iterate end.
LoopsEnd == (pc # "idle") ~> (pc = "idle")
=============================================================================
